---------------------------- MODULE Spec2Model ----------------------------
(***************************************************************************)
(* VisionID: the embedding matcher (app/services/matcher.py), the embedding *)
(* codec (app/services/embedder.py) and the per-image batch handlers        *)
(* mark_attendance (app/routes/attendance.py), recognize_faces and          *)
(* recognize_bulk.process_image (app/routes/recognize.py), the whole        *)
(* recognize_bulk request, and the register, update and delete requests of  *)
(* app/routes/register.py that change the users table meanwhile.            *)
(*                                                                         *)
(* Numbers.  An embedding component is a 32-bit word holding a fixed-point  *)
(* value in fifths (<<3, 4>> is the unit vector (0.6, 0.8)); a similarity   *)
(* is held in hundredths (60 is 0.6).  The vectors used have integer norms, *)
(* so every division below is exact.                                        *)
(*                                                                         *)
(* Scheduling.  Every handler and every per-face task runs on one asyncio   *)
(* event loop: the code between two awaits is one atomic step.  The awaits  *)
(* of a per-face task are the two run_in_executor jobs (get_embedding,      *)
(* match_embedding); the jobs of different faces finish in any order.       *)
(* A per-face task has at most one job in flight, so with at most four      *)
(* faces no job waits for one of the executor's four workers; the pools     *)
(* with more tasks than workers, and two mark_attendance requests in        *)
(* flight together, have specifications of their own (SpecPool, SpecTwo);   *)
(* SpecPoolFair adds the fairness of the event loop and of the pool.  The   *)
(* register requests alone are SpecRegister and direct calls of the         *)
(* matcher's methods are SpecMatcher.                                       *)
(*                                                                         *)
(* Persistence.  A crud.create_* call either inserts its row or raises      *)
(* without inserting.                                                       *)
(*                                                                         *)
(* Failures.  faults names the calls (detect_faces, get_all_embeddings,     *)
(* get_user) that raise while the request is served; a face object may lack *)
(* its embedding, make get_embedding's body raise, or carry a vector of     *)
(* another length than the gallery's, on which np.dot raises.               *)
(***************************************************************************)
EXTENDS Integers, Sequences, FiniteSets, TLC

VARIABLES
    users,                \* table users, in retrieval order: [id, name, embedding (bytes)]
    attendance_logs,      \* table attendance_logs, in insertion order
    recognition_history,  \* table recognition_history, in insertion order
    kind,                 \* the handler serving the batch
    detected_faces,       \* detector.detect_faces(image): the face objects, in detection order
    known_embeddings,     \* the handler's local list of (user_id, embedding)
    processed_users,      \* mark_attendance's local set
    task,                 \* per face: where its process_face coroutine is
    embedding,            \* per face: the local variable embedding of process_face
    results,              \* per face: what its process_face returned
    hpc,                  \* where the handler is
    resp,                 \* what the handler returned to the caller
    persist_failed,       \* history: the faces whose persistence call raised
    finished,             \* history: the faces in the order their tasks ended
    m_query, m_gallery, m_threshold, m_result, m_pc,  \* one direct call of the matcher
    m_top_k, m_top,       \* get_top_matches: its top_k argument and its result
    faults,               \* the collaborator calls that raise while this request is served
    fetched,              \* history: the users table as each crud.get_all_embeddings saw it
    registering,          \* the POST /register requests begun, in arrival order
    files,                \* recognize_bulk: the uploaded files
    images,               \* recognize_bulk: per file, where its process_image coroutine is
    call,                 \* one direct call of a function: its arguments and its result
    pool,                 \* the ThreadPoolExecutors: the tasks, their jobs, the work queues
    batches               \* several mark_attendance requests served at the same time

vars == <<users, attendance_logs, recognition_history, kind, detected_faces,
          known_embeddings, processed_users, task, embedding, results, hpc,
          resp, persist_failed, finished, m_query, m_gallery, m_threshold, m_result, m_pc,
          m_top_k, m_top, faults, fetched, registering, files, images, call, pool,
          batches>>

batchVars == <<users, attendance_logs, recognition_history, kind, detected_faces,
               known_embeddings, processed_users, task, embedding, results, hpc,
               resp, persist_failed, finished, faults, fetched, registering, files,
               images, call, pool, batches>>

matchVars == <<m_query, m_gallery, m_threshold, m_result, m_pc, m_top_k, m_top, call,
               pool, batches>>

bulkVars == <<files, images>>

\* What a step of one single-image batch leaves alone.
otherVars == <<matchVars, faults, registering, bulkVars>>

\* Python's None, and an optional number: None or Some(x).
None == << >>
Some(x) == <<x>>

----------------------------------------------------------------------------
(* Bounds of the model *)

MaxFaces == 2
MaxGallery == 2
MaxTopK == 3
MaxJobs == 5

(* Program constants *)

similarity_threshold == 60
RouteThreshold == 60
max_workers == 4

UserIds == {"u1", "u2", "u3"}

----------------------------------------------------------------------------
(* app/services/embedder.py: the byte codec and the normalisation *)

\* The four bytes of a 32-bit word, least significant first (two's complement).
WordBytes(w) ==
    << w % 256, (w \div 256) % 256, (w \div 65536) % 256, (w \div 16777216) % 256 >>

RECURSIVE embedding_to_bytes(_)
embedding_to_bytes(e) ==
    IF Len(e) = 0 THEN << >>
    ELSE WordBytes(Head(e)) \o embedding_to_bytes(Tail(e))

\* The word read without the sign of its last byte.
BytesWordUnsigned(b, k) ==
    b[k] + 256 * b[k + 1] + 65536 * b[k + 2] + 16777216 * (b[k + 3] % 128)

BytesWord(b, k) ==
    b[k] + 256 * b[k + 1] + 65536 * b[k + 2]
         + 16777216 * (IF b[k + 3] >= 128 THEN b[k + 3] - 256 ELSE b[k + 3])

bytes_to_embedding(b) ==
    [ k \in 1..(Len(b) \div 4) |-> BytesWord(b, 4 * (k - 1) + 1) ]

RECURSIVE Dot(_, _)
Dot(a, b) ==
    IF Len(a) = 0 THEN 0
    ELSE Head(a) * Head(b) + Dot(Tail(a), Tail(b))

ISqrt(n) == CHOOSE r \in 0..n : r * r <= n /\ (r + 1) * (r + 1) > n

Norm(v) == ISqrt(Dot(v, v))

normalize_embedding(e) ==
    LET norm == Norm(e)
    IN  IF norm = 0 THEN e
        ELSE [ k \in 1..Len(e) |-> (e[k] * 5) \div norm ]

\* A face object is [has |-> "embedding" | "normed_embedding" | "none", vec |-> ...].
get_embedding(face_obj) ==
    IF face_obj.has = "embedding" THEN normalize_embedding(face_obj.vec)
    ELSE IF face_obj.has = "normed_embedding" THEN face_obj.vec
    ELSE None   \* neither attribute, or the except clause (has = "raises")

----------------------------------------------------------------------------
(* app/services/matcher.py *)

\* The function answering 1.0 for a vector of zero norm.
compute_similarity_zero_as_one(embedding1, embedding2) ==
    LET dot_product == Dot(embedding1, embedding2)
        norm1 == Norm(embedding1)
        norm2 == Norm(embedding2)
    IN  IF norm1 = 0 \/ norm2 = 0 THEN 100
        ELSE (100 * dot_product) \div (norm1 * norm2)

\* The function dividing by the square of the first norm.
compute_similarity_first_norm(embedding1, embedding2) ==
    LET dot_product == Dot(embedding1, embedding2)
        norm1 == Norm(embedding1)
        norm2 == Norm(embedding2)
    IN  IF norm1 = 0 \/ norm2 = 0 THEN 0
        ELSE (100 * dot_product) \div (norm1 * norm1)

compute_similarity(embedding1, embedding2) ==
    LET dot_product == Dot(embedding1, embedding2)
        norm1 == Norm(embedding1)
        norm2 == Norm(embedding2)
    IN  IF norm1 = 0 \/ norm2 = 0 THEN 0
        ELSE (100 * dot_product) \div (norm1 * norm2)

\* np.dot raises ValueError for two vectors of different lengths, and neither
\* compute_similarity nor match_embedding catches it.
MatchRaises(query_embedding, known) ==
    \E k \in DOMAIN known : Len(known[k][2]) # Len(query_embedding)

\* The loop of match_embedding from gallery position i on.
RECURSIVE MatchLoop(_, _, _, _, _)
MatchLoop(query, known, i, best_match, best_score) ==
    IF i > Len(known) THEN best_match
    ELSE LET similarity == compute_similarity(query, known[i][2])
         IN  IF similarity > best_score
             THEN MatchLoop(query, known, i + 1, <<known[i][1], similarity>>, similarity)
             ELSE MatchLoop(query, known, i + 1, best_match, best_score)

\* The same loop with the comparison admitting equality.
RECURSIVE MatchLoopGE(_, _, _, _, _)
MatchLoopGE(query, known, i, best_match, best_score) ==
    IF i > Len(known) THEN best_match
    ELSE LET similarity == compute_similarity(query, known[i][2])
         IN  IF similarity >= best_score
             THEN MatchLoopGE(query, known, i + 1, <<known[i][1], similarity>>, similarity)
             ELSE MatchLoopGE(query, known, i + 1, best_match, best_score)

match_embedding_ge(query_embedding, known, threshold) ==
    LET t == IF threshold = None THEN similarity_threshold ELSE threshold[1]
    IN  MatchLoopGE(query_embedding, known, 1, None, t)

\* The same loop without the assignment best_score = similarity.
RECURSIVE MatchLoopNoUpdate(_, _, _, _, _)
MatchLoopNoUpdate(query, known, i, best_match, best_score) ==
    IF i > Len(known) THEN best_match
    ELSE LET similarity == compute_similarity(query, known[i][2])
         IN  IF similarity > best_score
             THEN MatchLoopNoUpdate(query, known, i + 1, <<known[i][1], similarity>>,
                                    best_score)
             ELSE MatchLoopNoUpdate(query, known, i + 1, best_match, best_score)

match_embedding_noupdate(query_embedding, known, threshold) ==
    LET t == IF threshold = None THEN similarity_threshold ELSE threshold[1]
    IN  MatchLoopNoUpdate(query_embedding, known, 1, None, t)

\* best_match starts as a pair instead of None.
match_embedding_pair(query_embedding, known, threshold) ==
    LET t == IF threshold = None THEN similarity_threshold ELSE threshold[1]
    IN  MatchLoop(query_embedding, known, 1, <<None, t>>, t)

match_embedding(query_embedding, known, threshold) ==
    LET t == IF threshold = None THEN similarity_threshold ELSE threshold[1]
    IN  MatchLoop(query_embedding, known, 1, None, t)

\* similarities: the (user_id, similarity) pairs in gallery order.
Similarities(query_embedding, database_embeddings) ==
    [ k \in 1..Len(database_embeddings) |->
        <<database_embeddings[k][1],
          compute_similarity(query_embedding, database_embeddings[k][2])>> ]

\* list.sort(key=score, reverse=True) is stable: x goes behind every pair whose score
\* is at least its own.  sorted holds pairs that precede x in the list being sorted.
RECURSIVE InsertDescending(_, _)
InsertDescending(x, sorted) ==
    IF Len(sorted) = 0 THEN <<x>>
    ELSE IF Head(sorted)[2] >= x[2]
         THEN <<Head(sorted)>> \o InsertDescending(x, Tail(sorted))
         ELSE <<x>> \o sorted

\* x goes in front of the pairs of equal score.
RECURSIVE InsertDescendingUnstable(_, _)
InsertDescendingUnstable(x, sorted) ==
    IF Len(sorted) = 0 THEN <<x>>
    ELSE IF Head(sorted)[2] > x[2]
         THEN <<Head(sorted)>> \o InsertDescendingUnstable(x, Tail(sorted))
         ELSE <<x>> \o sorted

RECURSIVE SortDescendingFrom(_, _, _)
SortDescendingFrom(list, i, sorted) ==
    IF i > Len(list) THEN sorted
    ELSE SortDescendingFrom(list, i + 1, InsertDescending(list[i], sorted))

RECURSIVE SortDescendingUnstableFrom(_, _, _)
SortDescendingUnstableFrom(list, i, sorted) ==
    IF i > Len(list) THEN sorted
    ELSE SortDescendingUnstableFrom(list, i + 1,
                                    InsertDescendingUnstable(list[i], sorted))

SortDescendingUnstable(list) == SortDescendingUnstableFrom(list, 1, << >>)

SortDescending(list) == SortDescendingFrom(list, 1, << >>)

\* similarities[:top_k] for top_k >= 0.
Slice(list, top_k) ==
    [ k \in 1..(IF top_k < Len(list) THEN top_k ELSE Len(list)) |-> list[k] ]

get_top_matches(query_embedding, database_embeddings, top_k) ==
    Slice(SortDescending(Similarities(query_embedding, database_embeddings)), top_k)


----------------------------------------------------------------------------
(* app/models/crud.py *)

get_all_embeddings(db_users) ==
    [ k \in 1..Len(db_users) |-> <<db_users[k].id, db_users[k].embedding>> ]

\* The user row with this id, or None.
get_user(db_users, user_id) ==
    IF \E k \in DOMAIN db_users : db_users[k].id = user_id
    THEN db_users[CHOOSE k \in DOMAIN db_users : db_users[k].id = user_id]
    ELSE None

\* The first user row with this name, or None.
get_user_by_name(db_users, name) ==
    IF \E k \in DOMAIN db_users : db_users[k].name = name
    THEN LET first == CHOOSE k \in DOMAIN db_users :
                         /\ db_users[k].name = name
                         /\ \A j \in DOMAIN db_users : db_users[j].name = name => k <= j
         IN  db_users[first]
    ELSE None

\* The table after create_user; user_id stands for the uuid4 drawn by the call.
create_user(db_users, user_id, name, embedding_bytes) ==
    Append(db_users, [id |-> user_id, name |-> name, embedding |-> embedding_bytes])

\* crud.update_user if the new embedding were stored in a row of its own.
crud_update_user_add_row(db_users, user_id, name, embedding_bytes) ==
    IF embedding_bytes # << >> /\ \E k \in DOMAIN db_users : db_users[k].id = user_id
    THEN Append(db_users,
                [id |-> user_id,
                 name |-> IF name # None THEN name[1]
                          ELSE db_users[CHOOSE k \in DOMAIN db_users :
                                            db_users[k].id = user_id].name,
                 embedding |-> embedding_bytes])
    ELSE [ k \in DOMAIN db_users |->
             IF db_users[k].id # user_id THEN db_users[k]
             ELSE [db_users[k] EXCEPT !.name = IF name # None THEN name[1] ELSE @] ]

\* The table after crud.update_user: a name of None and embedding bytes of None (or
\* empty) leave the column as it is; without a row of this id nothing changes.
crud_update_user(db_users, user_id, name, embedding_bytes) ==
    [ k \in DOMAIN db_users |->
        IF db_users[k].id # user_id THEN db_users[k]
        ELSE [id |-> user_id,
              name |-> IF name # None THEN name[1] ELSE db_users[k].name,
              embedding |-> IF embedding_bytes # << >> THEN embedding_bytes
                            ELSE db_users[k].embedding] ]

\* face is history: the position in detected_faces of the face the row was written for.
create_attendance_log(user_id, user_name, confidence, face) ==
    [user_id |-> user_id, user_name |-> user_name, status |-> "present",
     confidence |-> confidence, face |-> face]

create_recognition_record(user_id, user_name, confidence, recognized) ==
    [user_id |-> user_id, user_name |-> user_name, confidence |-> confidence,
     recognized |-> recognized]

----------------------------------------------------------------------------
(* app/routes/attendance.py and app/routes/recognize.py: one batch *)

Faces == DOMAIN detected_faces

\* The handlers of one image: mark_attendance, recognize_faces and an image of
\* recognize_bulk.
BatchKinds == {"attendance", "recognize", "bulk"}

\* The loop building known_embeddings from the rows of get_all_embeddings.
LoadKnownEmbeddings(db_users) ==
    LET db_embeddings_data == get_all_embeddings(db_users)
    IN  [ k \in 1..Len(db_embeddings_data) |->
            <<db_embeddings_data[k][1], bytes_to_embedding(db_embeddings_data[k][2])>> ]

\* FaceRecognition(user_id=None, name="Unknown", similarity=0.0, bbox=bbox); a face's
\* bbox is modelled by its position in detected_faces.
Unknown(i) == [user_id |-> None, name |-> "Unknown", similarity |-> 0, bbox |-> i]

Recognized(i, user_id, name, similarity) ==
    [user_id |-> Some(user_id), name |-> name, similarity |-> similarity, bbox |-> i]

\* AttendanceRecord; face is history: the position of the face the record was built for.
AttendanceRecord(i, user_id, name, similarity) ==
    [user_id |-> user_id, name |-> name, status |-> "present",
     confidence |-> similarity, face |-> i]

Return(i, value) ==
    /\ task' = [task EXCEPT ![i] = "done"]
    /\ results' = [results EXCEPT ![i] = value]
    /\ finished' = Append(finished, i)

\* The exception of process_face's task i reaches asyncio.gather.
Raise(i) ==
    /\ task' = [task EXCEPT ![i] = "raised"]
    /\ finished' = Append(finished, i)
    /\ UNCHANGED results

\* The handler fetching the gallery before it looks at the number of faces.
HandleNoFacesFetchFirst ==
    /\ kind \in BatchKinds
    /\ hpc = "start"
    /\ "detect_faces" \notin faults
    /\ Len(detected_faces) = 0
    /\ known_embeddings' = LoadKnownEmbeddings(users)
    /\ fetched' = Append(fetched, users)
    /\ resp' = [status |-> "success", items |-> << >>]
    /\ hpc' = "returned"
    /\ UNCHANGED <<users, attendance_logs, recognition_history, kind, detected_faces,
                   processed_users, task, embedding, results, persist_failed, finished>>
    /\ UNCHANGED otherVars

\* The handler up to its return for an image without faces.  recognize_bulk has
\* fetched the gallery before process_image detects; gather of no task returns [].
HandleNoFaces ==
    /\ kind \in BatchKinds
    /\ hpc = "start"
    /\ "detect_faces" \notin faults
    /\ Len(detected_faces) = 0
    /\ IF kind = "bulk"
       THEN /\ known_embeddings' = LoadKnownEmbeddings(users)
            /\ fetched' = Append(fetched, users)
       ELSE UNCHANGED <<known_embeddings, fetched>>
    /\ resp' = [status |-> "success", items |-> << >>]
    /\ hpc' = "returned"
    /\ UNCHANGED <<users, attendance_logs, recognition_history, kind, detected_faces,
                   processed_users, task, embedding, results, persist_failed, finished>>
    /\ UNCHANGED otherVars

\* detector.detect_faces raises, or crud.get_all_embeddings does once faces were
\* found: the handler's except clause answers 500 (process_image's except clause
\* returns the image's entry with success False and no faces).
HandleRaise ==
    /\ kind \in BatchKinds
    /\ hpc = "start"
    /\ \/ "detect_faces" \in faults
       \/ "get_all_embeddings" \in faults /\ Len(detected_faces) > 0
    /\ resp' = [status |-> "error", items |-> << >>]
    /\ hpc' = "returned"
    /\ UNCHANGED <<users, attendance_logs, recognition_history, kind, detected_faces,
                   known_embeddings, processed_users, task, embedding, results,
                   persist_failed, finished>>
    /\ UNCHANGED <<fetched, otherVars>>

\* The handler up to its await of asyncio.gather: the gallery is loaded and one
\* process_face task per detected face has run up to its first await.
HandleLaunch ==
    /\ kind \in BatchKinds
    /\ hpc = "start"
    /\ "detect_faces" \notin faults
    /\ "get_all_embeddings" \notin faults
    /\ Len(detected_faces) > 0
    /\ known_embeddings' = LoadKnownEmbeddings(users)
    /\ fetched' = Append(fetched, users)
    /\ processed_users' = {}
    /\ task' = [i \in Faces |-> "embedding"]
    /\ embedding' = [i \in Faces |-> None]
    /\ results' = [i \in Faces |-> None]
    /\ hpc' = "gather"
    /\ UNCHANGED <<users, attendance_logs, recognition_history, kind, detected_faces,
                   resp, persist_failed, finished>>
    /\ UNCHANGED otherVars

\* process_face raising for an empty gallery instead of skipping the match.
process_face_embedded_raise(i) ==
    /\ i \in DOMAIN task
    /\ task[i] = "embedding"
    /\ LET e == get_embedding(detected_faces[i])
       IN  IF e = None
           THEN /\ Return(i, IF kind = "attendance" THEN None ELSE Unknown(i))
                /\ UNCHANGED embedding
           ELSE IF Len(known_embeddings) > 0
           THEN /\ embedding' = [embedding EXCEPT ![i] = e]
                /\ task' = [task EXCEPT ![i] = "matching"]
                /\ UNCHANGED <<results, finished>>
           ELSE /\ Raise(i)
                /\ UNCHANGED embedding
    /\ UNCHANGED <<users, attendance_logs, recognition_history, kind, detected_faces,
                   known_embeddings, processed_users, hpc, resp, persist_failed>>
    /\ UNCHANGED <<fetched, otherVars>>

\* process_face fetching the gallery again when it resumes with its embedding.
process_face_embedded_refetch(i) ==
    /\ i \in DOMAIN task
    /\ task[i] = "embedding"
    /\ known_embeddings' = LoadKnownEmbeddings(users)
    /\ LET e == get_embedding(detected_faces[i])
       IN  IF e = None
           THEN /\ Return(i, IF kind = "attendance" THEN None ELSE Unknown(i))
                /\ UNCHANGED embedding
           ELSE IF Len(known_embeddings) > 0
           THEN /\ embedding' = [embedding EXCEPT ![i] = e]
                /\ task' = [task EXCEPT ![i] = "matching"]
                /\ UNCHANGED <<results, finished>>
           ELSE /\ embedding' = [embedding EXCEPT ![i] = e]
                /\ Return(i, IF kind = "attendance" THEN None ELSE Unknown(i))
    /\ UNCHANGED <<users, attendance_logs, recognition_history, kind, detected_faces,
                   processed_users, hpc, resp, persist_failed>>
    /\ UNCHANGED <<fetched, otherVars>>

\* process_face from the end of the get_embedding job to its next await or return.
process_face_embedded(i) ==
    /\ i \in DOMAIN task
    /\ task[i] = "embedding"
    /\ LET e == get_embedding(detected_faces[i])
       IN  IF e = None
           THEN /\ Return(i, IF kind = "attendance" THEN None ELSE Unknown(i))
                /\ UNCHANGED embedding
           ELSE IF Len(known_embeddings) > 0
           THEN /\ embedding' = [embedding EXCEPT ![i] = e]
                /\ task' = [task EXCEPT ![i] = "matching"]
                /\ UNCHANGED <<results, finished>>
           ELSE /\ embedding' = [embedding EXCEPT ![i] = e]
                /\ Return(i, IF kind = "attendance" THEN None ELSE Unknown(i))
    /\ UNCHANGED <<users, attendance_logs, recognition_history, kind, detected_faces,
                   known_embeddings, processed_users, hpc, resp, persist_failed>>
    /\ UNCHANGED <<fetched, otherVars>>

\* mark_attendance.process_face without the processed_users test.
attendance_face_matched_nocheck(i) ==
    /\ kind = "attendance"
    /\ i \in DOMAIN task
    /\ task[i] = "matching"
    /\ IF MatchRaises(embedding[i], known_embeddings)
       THEN /\ Raise(i)
            /\ UNCHANGED <<attendance_logs, processed_users, persist_failed>>
       ELSE
       LET match_result == match_embedding(embedding[i], known_embeddings, Some(RouteThreshold))
       IN  IF match_result = None
           THEN /\ Return(i, None)
                /\ UNCHANGED <<attendance_logs, processed_users, persist_failed>>
           ELSE LET user_id == match_result[1]
                    similarity == match_result[2]
                    user == get_user(users, user_id)
                IN  IF "get_user" \in faults
                    THEN /\ Raise(i)
                         /\ UNCHANGED <<attendance_logs, processed_users, persist_failed>>
                    ELSE IF user = None
                    THEN /\ Return(i, None)
                         /\ UNCHANGED <<attendance_logs, processed_users, persist_failed>>
                    ELSE \/ /\ attendance_logs' = Append(attendance_logs,
                                   create_attendance_log(user_id, user.name, similarity, i))
                            /\ processed_users' = processed_users \cup {user_id}
                            /\ Return(i, AttendanceRecord(i, user_id, user.name, similarity))
                            /\ UNCHANGED persist_failed
                         \/ /\ Raise(i)
                            /\ persist_failed' = persist_failed \cup {i}
                            /\ UNCHANGED <<attendance_logs, processed_users>>
    /\ UNCHANGED <<users, recognition_history, kind, detected_faces, known_embeddings,
                   embedding, hpc, resp>>
    /\ UNCHANGED <<fetched, otherVars>>

\* mark_attendance.process_face if it were suspended between its processed_users test
\* and its writes: the test passed leaves the task at "checked", and a later step of
\* that task inserts the log and adds the identity.
attendance_face_matched_suspended(i) ==
    /\ kind = "attendance"
    /\ i \in DOMAIN task
    /\ task[i] \in {"matching", "checked"}
    /\ IF MatchRaises(embedding[i], known_embeddings)
       THEN /\ Raise(i)
            /\ UNCHANGED <<attendance_logs, processed_users, persist_failed>>
       ELSE
       LET match_result == match_embedding(embedding[i], known_embeddings, Some(RouteThreshold))
       IN  IF match_result = None
           THEN /\ Return(i, None)
                /\ UNCHANGED <<attendance_logs, processed_users, persist_failed>>
           ELSE LET user_id == match_result[1]
                    similarity == match_result[2]
                    user == get_user(users, user_id)
                IN  IF task[i] = "matching" /\ user_id \in processed_users
                    THEN /\ Return(i, None)
                         /\ UNCHANGED <<attendance_logs, processed_users, persist_failed>>
                    ELSE IF task[i] = "matching"
                    THEN /\ task' = [task EXCEPT ![i] = "checked"]
                         /\ UNCHANGED <<results, finished, attendance_logs,
                                        processed_users, persist_failed>>
                    ELSE IF user = None
                    THEN /\ Return(i, None)
                         /\ UNCHANGED <<attendance_logs, processed_users, persist_failed>>
                    ELSE /\ attendance_logs' = Append(attendance_logs,
                                create_attendance_log(user_id, user.name, similarity, i))
                         /\ processed_users' = processed_users \cup {user_id}
                         /\ Return(i, AttendanceRecord(i, user_id, user.name, similarity))
                         /\ UNCHANGED persist_failed
    /\ UNCHANGED <<users, recognition_history, kind, detected_faces, known_embeddings,
                   embedding, hpc, resp>>
    /\ UNCHANGED <<fetched, otherVars>>

\* mark_attendance.process_face from the end of the match_embedding job to its return.
\* The job raises for a query of another length than a gallery vector; crud.get_user
\* raises when it is among the faults; crud.create_attendance_log either inserts the
\* row or raises (the last disjunct).
attendance_face_matched(i) ==
    /\ kind = "attendance"
    /\ i \in DOMAIN task
    /\ task[i] = "matching"
    /\ IF MatchRaises(embedding[i], known_embeddings)
       THEN /\ Raise(i)
            /\ UNCHANGED <<attendance_logs, processed_users, persist_failed>>
       ELSE
       LET match_result == match_embedding(embedding[i], known_embeddings, Some(RouteThreshold))
       IN  IF match_result = None
           THEN /\ Return(i, None)
                /\ UNCHANGED <<attendance_logs, processed_users, persist_failed>>
           ELSE LET user_id == match_result[1]
                    similarity == match_result[2]
                    user == get_user(users, user_id)
                IN  IF user_id \in processed_users
                    THEN /\ Return(i, None)
                         /\ UNCHANGED <<attendance_logs, processed_users, persist_failed>>
                    ELSE IF "get_user" \in faults
                    THEN /\ Raise(i)
                         /\ UNCHANGED <<attendance_logs, processed_users, persist_failed>>
                    ELSE IF user = None
                    THEN /\ Return(i, None)
                         /\ UNCHANGED <<attendance_logs, processed_users, persist_failed>>
                    ELSE \/ /\ attendance_logs' = Append(attendance_logs,
                                   create_attendance_log(user_id, user.name, similarity, i))
                            /\ processed_users' = processed_users \cup {user_id}
                            /\ Return(i, AttendanceRecord(i, user_id, user.name, similarity))
                            /\ UNCHANGED persist_failed
                         \/ /\ Raise(i)
                            /\ persist_failed' = persist_failed \cup {i}
                            /\ UNCHANGED <<attendance_logs, processed_users>>
    /\ UNCHANGED <<users, recognition_history, kind, detected_faces, known_embeddings,
                   embedding, hpc, resp>>
    /\ UNCHANGED <<fetched, otherVars>>

\* The same step matching against the users table as it is now.
recognize_face_matched_live(i) ==
    /\ kind \in {"recognize", "bulk"}
    /\ i \in DOMAIN task
    /\ task[i] = "matching"
    /\ IF MatchRaises(embedding[i], LoadKnownEmbeddings(users))
       THEN Raise(i)
       ELSE
       LET match_result == match_embedding(embedding[i], LoadKnownEmbeddings(users), Some(RouteThreshold))
       IN  IF match_result = None
           THEN Return(i, Unknown(i))
           ELSE LET user_id == match_result[1]
                    similarity == match_result[2]
                    user == get_user(users, user_id)
                IN  IF "get_user" \in faults
                    THEN Raise(i)
                    ELSE IF user = None
                    THEN Return(i, Unknown(i))
                    ELSE Return(i, Recognized(i, user_id, user.name, similarity))
    /\ UNCHANGED <<users, attendance_logs, recognition_history, kind, detected_faces,
                   known_embeddings, processed_users, embedding, hpc, resp, persist_failed>>
    /\ UNCHANGED <<fetched, otherVars>>

\* The same step with the task writing the history row of its own outcome.
recognize_face_matched_writes_history(i) ==
    /\ kind \in {"recognize", "bulk"}
    /\ i \in DOMAIN task
    /\ task[i] = "matching"
    /\ LET raises == IF MatchRaises(embedding[i], known_embeddings) THEN TRUE
                     ELSE /\ match_embedding(embedding[i], known_embeddings,
                                             Some(RouteThreshold)) # None
                          /\ "get_user" \in faults
       IN  IF raises
           THEN /\ Raise(i)
                /\ UNCHANGED recognition_history
           ELSE LET match_result == match_embedding(embedding[i], known_embeddings,
                                                    Some(RouteThreshold))
                    outcome ==
                        IF match_result = None THEN Unknown(i)
                        ELSE LET user == get_user(users, match_result[1])
                             IN  IF user = None THEN Unknown(i)
                                 ELSE Recognized(i, match_result[1], user.name,
                                                 match_result[2])
                IN  /\ Return(i, outcome)
                    /\ recognition_history' =
                          Append(recognition_history,
                                 create_recognition_record(
                                     outcome.user_id, outcome.name, outcome.similarity,
                                     IF outcome.user_id # None THEN "true" ELSE "false"))
    /\ UNCHANGED <<users, attendance_logs, kind, detected_faces,
                   known_embeddings, processed_users, embedding, hpc, resp, persist_failed>>
    /\ UNCHANGED <<fetched, otherVars>>

\* recognize_faces.process_face and recognize_bulk's process_face from the end of the
\* match_embedding job to their return.
recognize_face_matched(i) ==
    /\ kind \in {"recognize", "bulk"}
    /\ i \in DOMAIN task
    /\ task[i] = "matching"
    /\ IF MatchRaises(embedding[i], known_embeddings)
       THEN Raise(i)
       ELSE
       LET match_result == match_embedding(embedding[i], known_embeddings, Some(RouteThreshold))
       IN  IF match_result = None
           THEN Return(i, Unknown(i))
           ELSE LET user_id == match_result[1]
                    similarity == match_result[2]
                    user == get_user(users, user_id)
                IN  IF "get_user" \in faults
                    THEN Raise(i)
                    ELSE IF user = None
                    THEN Return(i, Unknown(i))
                    ELSE Return(i, Recognized(i, user_id, user.name, similarity))
    /\ UNCHANGED <<users, attendance_logs, recognition_history, kind, detected_faces,
                   known_embeddings, processed_users, embedding, hpc, resp, persist_failed>>
    /\ UNCHANGED <<fetched, otherVars>>

\* The results taken in the order the tasks ended (asyncio.as_completed) instead.
GatherResultsAsCompleted ==
    [ k \in 1..Len(detected_faces) |-> results[finished[k]] ]

\* What asyncio.gather hands back: the tasks' results in the order of its arguments.
GatherResults == [ i \in 1..Len(detected_faces) |-> results[i] ]

IsNotNone(r) == r # None

\* attendance_records = [r for r in results if r is not None]
attendance_records == SelectSeq(GatherResults, IsNotNone)

HistoryRecord(recog) ==
    create_recognition_record(recog.user_id, recog.name, recog.similarity,
                              IF recog.user_id # None THEN "true" ELSE "false")

\* The loop writing a row for the recognized faces only.
HistoryRowsRecognizedOnly(recognitions, n) ==
    LET IsRecognized(recog) == recog.user_id # None
        all == [ k \in 1..n |-> recognitions[k] ]
        kept == SelectSeq(all, IsRecognized)
    IN  [ k \in 1..Len(kept) |->
            create_recognition_record(kept[k].user_id, kept[k].name,
                                      kept[k].similarity, "true") ]

\* The first n history rows of recognize_faces' loop over recognitions.
HistoryRows(recognitions, n) == [ k \in 1..n |-> HistoryRecord(recognitions[k]) ]

\* mark_attendance answering with the records in the order their tasks ended.
AttendanceReturnAsCompleted ==
    /\ kind = "attendance"
    /\ hpc = "gather"
    /\ \A i \in Faces : task[i] = "done"
    /\ LET records == SelectSeq([k \in 1..Len(detected_faces) |-> results[finished[k]]],
                                IsNotNone)
       IN  resp' = [status |-> "success", items |-> records, message |-> Len(records)]
    /\ hpc' = "returned"
    /\ UNCHANGED <<users, attendance_logs, recognition_history, kind, detected_faces,
                   known_embeddings, processed_users, task, embedding, results,
                   persist_failed, finished>>
    /\ UNCHANGED <<fetched, otherVars>>

\* mark_attendance after gather returned; message is the number its message states,
\* "Attendance marked for {len(attendance_records)} person(s)".
AttendanceReturn ==
    /\ kind = "attendance"
    /\ hpc = "gather"
    /\ \A i \in Faces : task[i] = "done"
    /\ resp' = [status |-> "success", items |-> attendance_records,
                message |-> Len(attendance_records)]
    /\ hpc' = "returned"
    /\ UNCHANGED <<users, attendance_logs, recognition_history, kind, detected_faces,
                   known_embeddings, processed_users, task, embedding, results,
                   persist_failed, finished>>
    /\ UNCHANGED <<fetched, otherVars>>

\* recognize_faces after gather returned: the loop writing one history row per
\* recognition, in which crud.create_recognition_record raises at row n + 1 when
\* n < N, and the response.
RecognizeReturn ==
    /\ kind = "recognize"
    /\ hpc = "gather"
    /\ \A i \in Faces : task[i] = "done"
    /\ \E n \in 0..Len(detected_faces) :
          /\ recognition_history' =
                recognition_history \o HistoryRows(GatherResults, n)
          /\ IF n = Len(detected_faces)
             THEN /\ resp' = [status |-> "success", items |-> GatherResults]
                  /\ UNCHANGED persist_failed
             ELSE /\ resp' = [status |-> "error", items |-> << >>]
                  /\ persist_failed' = persist_failed \cup {n + 1}
    /\ hpc' = "returned"
    /\ UNCHANGED <<users, attendance_logs, kind, detected_faces, known_embeddings,
                   processed_users, task, embedding, results, finished>>
    /\ UNCHANGED <<fetched, otherVars>>

\* recognize_bulk.process_image after gather returned.
BulkImageReturn ==
    /\ kind = "bulk"
    /\ hpc = "gather"
    /\ \A i \in Faces : task[i] = "done"
    /\ resp' = [status |-> "success", items |-> GatherResults]
    /\ hpc' = "returned"
    /\ UNCHANGED <<users, attendance_logs, recognition_history, kind, detected_faces,
                   known_embeddings, processed_users, task, embedding, results,
                   persist_failed, finished>>
    /\ UNCHANGED <<fetched, otherVars>>

\* The handler answering with a success and no outcome when a task raised.
GatherRaiseSwallowed ==
    /\ hpc = "gather"
    /\ \E i \in Faces : task[i] = "raised"
    /\ resp' = [status |-> "success", items |-> << >>]
    /\ hpc' = "returned"
    /\ UNCHANGED <<users, attendance_logs, recognition_history, kind, detected_faces,
                   known_embeddings, processed_users, task, embedding, results,
                   persist_failed, finished>>
    /\ UNCHANGED <<fetched, otherVars>>

\* gather re-raises the first exception of a task as soon as the handler runs again;
\* the other tasks are not cancelled.  The handler's except clause answers 500.
GatherRaise ==
    /\ hpc = "gather"
    /\ \E i \in Faces : task[i] = "raised"
    /\ resp' = [status |-> "error", items |-> << >>]
    /\ hpc' = "returned"
    /\ UNCHANGED <<users, attendance_logs, recognition_history, kind, detected_faces,
                   known_embeddings, processed_users, task, embedding, results,
                   persist_failed, finished>>
    /\ UNCHANGED <<fetched, otherVars>>

----------------------------------------------------------------------------
(* app/routes/register.py: a concurrent request *)

\* crud.delete_user: the table without the row of this id.
crud_delete_user(db_users, user_id) ==
    LET Keep(row) == row.id # user_id IN SelectSeq(db_users, Keep)

\* DELETE /register/user/{user_id} served while the batch is in flight; for an id
\* that has no row it answers 404 and changes nothing.
delete_user(user_id) ==
    /\ get_user(users, user_id) # None
    /\ users' = crud_delete_user(users, user_id)
    /\ UNCHANGED <<attendance_logs, recognition_history, kind, detected_faces,
                   known_embeddings, processed_users, task, embedding, results, hpc,
                   resp, persist_failed, finished>>
    /\ UNCHANGED <<fetched, otherVars>>

\* What a step of a register, update or delete request leaves alone.
batchLocalVars == <<attendance_logs, recognition_history, kind, detected_faces,
                    known_embeddings, processed_users, task, embedding, results, hpc,
                    resp, persist_failed, finished, fetched, matchVars, faults, bulkVars>>

\* The uuid4 that create_user draws for the r-th register request.
NewUserIds == <<"u3", "u4">>

\* POST /register up to its await of file.read(): the name must be unused.
register_user_begin(r) ==
    /\ r \in DOMAIN registering
    /\ registering[r].pc = "arrived"
    /\ registering' = [registering EXCEPT ![r].pc =
          IF get_user_by_name(users, registering[r].name) # None
          THEN "rejected" ELSE "reading"]
    /\ UNCHANGED users
    /\ UNCHANGED batchLocalVars

\* POST /register taking the first detected face, however many there are.
register_user_finish_first_face(r) ==
    /\ r \in DOMAIN registering
    /\ registering[r].pc = "reading"
    /\ LET faces == registering[r].faces
           e == IF Len(faces) >= 1 THEN get_embedding(faces[1]) ELSE None
       IN  IF Len(faces) = 0
           THEN /\ registering' = [registering EXCEPT ![r].pc = "rejected"]
                /\ UNCHANGED users
           ELSE IF e = None
           THEN /\ registering' = [registering EXCEPT ![r].pc = "failed"]
                /\ UNCHANGED users
           ELSE /\ users' = create_user(users, NewUserIds[r], registering[r].name,
                                        embedding_to_bytes(e))
                /\ registering' = [registering EXCEPT ![r].pc = "registered"]
    /\ UNCHANGED batchLocalVars

\* POST /register from the end of file.read() to its response: exactly one face
\* (otherwise 400, "rejected"), an embedding for it (otherwise 500, "failed"), then
\* crud.create_user.
register_user_finish(r) ==
    /\ r \in DOMAIN registering
    /\ registering[r].pc = "reading"
    /\ LET faces == registering[r].faces
           e == IF Len(faces) = 1 THEN get_embedding(faces[1]) ELSE None
       IN  IF Len(faces) # 1
           THEN /\ registering' = [registering EXCEPT ![r].pc = "rejected"]
                /\ UNCHANGED users
           ELSE IF e = None
           THEN /\ registering' = [registering EXCEPT ![r].pc = "failed"]
                /\ UNCHANGED users
           ELSE /\ users' = create_user(users, NewUserIds[r], registering[r].name,
                                        embedding_to_bytes(e))
                /\ registering' = [registering EXCEPT ![r].pc = "registered"]
    /\ UNCHANGED batchLocalVars

\* PUT /register/user/{user_id} at its call of crud.update_user, with the new name
\* and the embedding bytes of the new image, each possibly None; the steps before it
\* only read.  For an id without a row it answers 404 and changes nothing.
update_user(user_id, name, embedding_bytes) ==
    /\ get_user(users, user_id) # None
    /\ users' = crud_update_user(users, user_id, name, embedding_bytes)
    /\ users' # users
    /\ UNCHANGED registering
    /\ UNCHANGED batchLocalVars

----------------------------------------------------------------------------
(* app/routes/recognize.py: recognize_bulk, the whole request *)

\* What a step of recognize_bulk leaves alone besides the request's own state.
bulkIdleVars == <<users, attendance_logs, recognition_history, kind, detected_faces,
                  processed_users, task, embedding, results, persist_failed, finished,
                  matchVars, faults, registering, files>>

\* process_image's entry for a file that is invalid or whose processing raised.
ImageFailed == [success |-> FALSE, faces |-> << >>]

\* process_image's entry for a file whose faces were all processed.
ImageProcessed(faces) ==
    [success |-> TRUE, detected_faces |-> Len(faces), faces |-> faces]

\* recognize_bulk up to its await of asyncio.gather: the checks on the number of
\* files (fewer than 50 here), the gallery fetched once, one process_image task per file.
BulkLaunch ==
    /\ kind = "recognize_bulk"
    /\ hpc = "start"
    /\ IF Len(files) = 0 \/ "get_all_embeddings" \in faults
       THEN /\ resp' = [status |-> "error", items |-> << >>]
            /\ hpc' = "returned"
            /\ UNCHANGED <<known_embeddings, fetched, images>>
       ELSE /\ known_embeddings' = LoadKnownEmbeddings(users)
            /\ fetched' = Append(fetched, users)
            /\ images' = [ f \in DOMAIN files |->
                             [pc |-> "read", task |-> << >>, embedding |-> << >>,
                              results |-> << >>, result |-> None] ]
            /\ hpc' = "gather"
            /\ UNCHANGED resp
    /\ UNCHANGED bulkIdleVars

\* process_image from the end of file.read() to its return or to its await of gather:
\* validation, detection and the launch of one process_face task per face.  gather of
\* no task is already done, so an image without faces returns in the same step.
process_image_detect(f) ==
    /\ kind = "recognize_bulk"
    /\ f \in DOMAIN images
    /\ images[f].pc = "read"
    /\ images' = [images EXCEPT ![f] =
          IF files[f].content \in {"invalid", "detector_raises"}
          THEN [@ EXCEPT !.pc = "done", !.result = ImageFailed]
          ELSE IF Len(files[f].faces) = 0
          THEN [@ EXCEPT !.pc = "done", !.result = ImageProcessed(<< >>)]
          ELSE [@ EXCEPT !.pc = "gather",
                         !.task = [i \in DOMAIN files[f].faces |-> "embedding"],
                         !.embedding = [i \in DOMAIN files[f].faces |-> None],
                         !.results = [i \in DOMAIN files[f].faces |-> None]]]
    /\ UNCHANGED <<known_embeddings, fetched, hpc, resp>>
    /\ UNCHANGED bulkIdleVars

\* process_face of image f from the end of the get_embedding job on.
bulk_face_embedded(f, i) ==
    /\ kind = "recognize_bulk"
    /\ f \in DOMAIN images
    /\ i \in DOMAIN images[f].task
    /\ images[f].task[i] = "embedding"
    /\ LET e == get_embedding(files[f].faces[i])
       IN  images' = [images EXCEPT ![f] =
              IF e = None
              THEN [@ EXCEPT !.task[i] = "done", !.results[i] = Unknown(i)]
              ELSE IF Len(known_embeddings) > 0
              THEN [@ EXCEPT !.task[i] = "matching", !.embedding[i] = e]
              ELSE [@ EXCEPT !.task[i] = "done", !.embedding[i] = e,
                             !.results[i] = Unknown(i)]]
    /\ UNCHANGED <<known_embeddings, fetched, hpc, resp>>
    /\ UNCHANGED bulkIdleVars

\* What match_embedding hands to process_face of image f for face i; only evaluated
\* when the job does not raise.
BulkMatch(f, i) ==
    match_embedding(images[f].embedding[i], known_embeddings, Some(RouteThreshold))

\* process_face raises after its match job: the job itself, or crud.get_user.
BulkFaceRaises(f, i) ==
    IF MatchRaises(images[f].embedding[i], known_embeddings) THEN TRUE
    ELSE BulkMatch(f, i) # None /\ "get_user" \in faults

\* The dict process_face returns after its match job.
BulkFaceOutcome(f, i) ==
    LET match_result == BulkMatch(f, i)
    IN  IF match_result = None THEN Unknown(i)
        ELSE LET user == get_user(users, match_result[1])
             IN  IF user = None THEN Unknown(i)
                 ELSE Recognized(i, match_result[1], user.name, match_result[2])

\* process_face of image f from the end of the match_embedding job to its return.
bulk_face_matched(f, i) ==
    /\ kind = "recognize_bulk"
    /\ f \in DOMAIN images
    /\ i \in DOMAIN images[f].task
    /\ images[f].task[i] = "matching"
    /\ images' = [images EXCEPT ![f] =
          IF BulkFaceRaises(f, i)
          THEN [@ EXCEPT !.task[i] = "raised"]
          ELSE [@ EXCEPT !.task[i] = "done", !.results[i] = BulkFaceOutcome(f, i)]]
    /\ UNCHANGED <<known_embeddings, fetched, hpc, resp>>
    /\ UNCHANGED bulkIdleVars

\* process_image after its gather returned the faces in the order of the tasks.
process_image_return(f) ==
    /\ kind = "recognize_bulk"
    /\ f \in DOMAIN images
    /\ images[f].pc = "gather"
    /\ \A i \in DOMAIN images[f].task : images[f].task[i] = "done"
    /\ images' = [images EXCEPT ![f] =
          [@ EXCEPT !.pc = "done", !.result = ImageProcessed(images[f].results)]]
    /\ UNCHANGED <<known_embeddings, fetched, hpc, resp>>
    /\ UNCHANGED bulkIdleVars

\* process_image's except clause after its gather re-raised a task's exception.
process_image_except(f) ==
    /\ kind = "recognize_bulk"
    /\ f \in DOMAIN images
    /\ images[f].pc = "gather"
    /\ \E i \in DOMAIN images[f].task : images[f].task[i] = "raised"
    /\ images' = [images EXCEPT ![f] = [@ EXCEPT !.pc = "done", !.result = ImageFailed]]
    /\ UNCHANGED <<known_embeddings, fetched, hpc, resp>>
    /\ UNCHANGED bulkIdleVars

RECURSIVE SumSeq(_)
SumSeq(q) == IF q = << >> THEN 0 ELSE Head(q) + SumSeq(Tail(q))

IsRecognized(face) == face.user_id # None

\* The response of recognize_bulk if it listed the processed images only.
BulkResponseProcessedOnly(entries) ==
    LET IsSuccess(r) == r.success
        processed == SelectSeq(entries, IsSuccess)
    IN  [status |-> "success",
         items |-> processed,
         total_images |-> Len(files),
         processed_images |-> Len(processed),
         total_faces_detected |->
            SumSeq([k \in DOMAIN processed |-> processed[k].detected_faces]),
         total_faces_recognized |->
            SumSeq([k \in DOMAIN processed |->
                      Len(SelectSeq(processed[k].faces, IsRecognized))])]

\* The response of recognize_bulk for the entries that gather returned.
BulkResponse(entries) ==
    LET IsSuccess(r) == r.success
        processed == SelectSeq(entries, IsSuccess)
    IN  [status |-> "success",
         items |-> entries,
         total_images |-> Len(files),
         processed_images |-> Len(processed),
         total_faces_detected |->
            SumSeq([k \in DOMAIN processed |-> processed[k].detected_faces]),
         total_faces_recognized |->
            SumSeq([k \in DOMAIN processed |->
                      Len(SelectSeq(processed[k].faces, IsRecognized))])]

\* recognize_bulk after its gather returned the entries in the order of the files.
BulkReturn ==
    /\ kind = "recognize_bulk"
    /\ hpc = "gather"
    /\ \A f \in DOMAIN images : images[f].pc = "done"
    /\ resp' = BulkResponse([f \in DOMAIN images |-> images[f].result])
    /\ hpc' = "returned"
    /\ UNCHANGED <<known_embeddings, fetched, images>>
    /\ UNCHANGED bulkIdleVars

----------------------------------------------------------------------------
(* The batches explored *)

\* No direct call, no pool and no second request.
ExtraIdle ==
    /\ call = << >>
    /\ pool = << >>
    /\ batches = << >>

MatchIdle ==
    /\ ExtraIdle
    /\ m_query = << >>
    /\ m_gallery = << >>
    /\ m_threshold = None
    /\ m_result = None
    /\ m_pc = "idle"
    /\ m_top_k = 0
    /\ m_top = << >>

Alice == [id |-> "u1", name |-> "alice", embedding |-> embedding_to_bytes(<<3, 4>>)]
Bob == [id |-> "u2", name |-> "bob", embedding |-> embedding_to_bytes(<<0, 5>>)]

UserTables == { << >>, <<Alice>>, <<Alice, Bob>> }

\* Against Alice and Bob: 1.0 for Alice; 0.96 for Alice; 1.0 for Bob (0.8 for Alice);
\* 0.6 for Alice and 0.0 for Bob, so no match; no embedding at all.
FaceObjs ==
    { [has |-> "embedding", vec |-> <<6, 8>>],
      [has |-> "normed_embedding", vec |-> <<4, 3>>],
      [has |-> "embedding", vec |-> <<0, 10>>],
      [has |-> "normed_embedding", vec |-> <<5, 0>>],
      [has |-> "none", vec |-> << >>] }

Init ==
    /\ MatchIdle
    /\ users \in UserTables
    /\ attendance_logs = << >>
    /\ recognition_history = << >>
    /\ kind \in {"attendance", "recognize", "bulk"}
    /\ detected_faces \in UNION { [1..n -> FaceObjs] : n \in 0..MaxFaces }
    /\ known_embeddings = << >>
    /\ processed_users = {}
    /\ task = << >>
    /\ embedding = << >>
    /\ results = << >>
    /\ hpc = "start"
    /\ resp = [status |-> "pending", items |-> << >>]
    /\ persist_failed = {}
    /\ finished = << >>
    /\ faults = {}
    /\ fetched = << >>
    /\ registering = << >>
    /\ files = << >>
    /\ images = << >>

Next ==
    \/ HandleNoFaces
    \/ HandleLaunch
    \/ \E i \in Faces : process_face_embedded(i)
    \/ \E i \in Faces : attendance_face_matched(i)
    \/ \E i \in Faces : recognize_face_matched(i)
    \/ AttendanceReturn
    \/ RecognizeReturn
    \/ BulkImageReturn
    \/ GatherRaise
    \/ \E user_id \in UserIds : delete_user(user_id)

Spec == Init /\ [][Next]_vars

----------------------------------------------------------------------------
(* One recognize_bulk request *)

\* One more face object: a vector of another length than the gallery's vectors.
ShortFace == [has |-> "normed_embedding", vec |-> <<5>>]

\* 1.0 and 0.96 for Alice, and the short vector.
BulkFaceObjs ==
    { [has |-> "embedding", vec |-> <<6, 8>>],
      [has |-> "normed_embedding", vec |-> <<4, 3>>],
      ShortFace }

\* A file is rejected by validate_image or read_image_file, makes detect_faces raise,
\* or is an image with its detected faces.
BulkFiles ==
    { [content |-> c, faces |-> << >>] : c \in {"invalid", "detector_raises"} }
        \cup { [content |-> "image", faces |-> q] :
                  q \in UNION { [1..n -> BulkFaceObjs] : n \in 0..MaxFaces } }

TotalFaces(fs) == SumSeq([f \in DOMAIN fs |-> Len(fs[f].faces)])

SingleIdle ==
    /\ attendance_logs = << >>
    /\ recognition_history = << >>
    /\ detected_faces = << >>
    /\ processed_users = {}
    /\ task = << >>
    /\ embedding = << >>
    /\ results = << >>
    /\ persist_failed = {}
    /\ finished = << >>

InitBulk ==
    /\ MatchIdle
    /\ SingleIdle
    /\ kind = "recognize_bulk"
    /\ users = <<Alice>>
    /\ files \in { fs \in UNION { [1..n -> BulkFiles] : n \in 0..MaxFaces } :
                      TotalFaces(fs) <= MaxFaces }
    /\ images = << >>
    /\ faults \in { {}, {"get_all_embeddings"}, {"get_user"} }
    /\ fetched = << >>
    /\ registering = << >>
    /\ known_embeddings = << >>
    /\ hpc = "start"
    /\ resp = [status |-> "pending", items |-> << >>]

NextBulk ==
    \/ BulkLaunch
    \/ \E f \in DOMAIN files : process_image_detect(f)
    \/ \E f \in DOMAIN files : \E i \in DOMAIN files[f].faces : bulk_face_embedded(f, i)
    \/ \E f \in DOMAIN files : \E i \in DOMAIN files[f].faces : bulk_face_matched(f, i)
    \/ \E f \in DOMAIN files : process_image_return(f)
    \/ \E f \in DOMAIN files : process_image_except(f)
    \/ BulkReturn

SpecBulk == InitBulk /\ [][NextBulk]_vars

----------------------------------------------------------------------------
(* Requests in which collaborators fail *)

\* A face matching Alice, a face object without embedding attribute, one whose
\* embedding cannot be read or normalised, and one of another length.
FailFaceObjs ==
    { [has |-> "embedding", vec |-> <<6, 8>>],
      [has |-> "none", vec |-> << >>],
      [has |-> "raises", vec |-> << >>],
      ShortFace }

\* One single-image request; the gallery fetch of recognize_bulk belongs to the
\* request, so for one of its images that call is not among the faults.
InitFail ==
    /\ MatchIdle
    /\ users \in { << >>, <<Alice>> }
    /\ attendance_logs = << >>
    /\ recognition_history = << >>
    /\ kind \in {"attendance", "recognize", "bulk"}
    /\ detected_faces \in UNION { [1..n -> FailFaceObjs] : n \in 0..MaxFaces }
    /\ known_embeddings = << >>
    /\ processed_users = {}
    /\ task = << >>
    /\ embedding = << >>
    /\ results = << >>
    /\ hpc = "start"
    /\ resp = [status |-> "pending", items |-> << >>]
    /\ persist_failed = {}
    /\ finished = << >>
    /\ faults \in SUBSET {"detect_faces", "get_all_embeddings", "get_user"}
    /\ kind = "bulk" => "get_all_embeddings" \notin faults
    /\ fetched = << >>
    /\ registering = << >>
    /\ files = << >>
    /\ images = << >>

NextFail ==
    \/ HandleNoFaces
    \/ HandleLaunch
    \/ HandleRaise
    \/ \E i \in Faces : process_face_embedded(i)
    \/ \E i \in Faces : attendance_face_matched(i)
    \/ \E i \in Faces : recognize_face_matched(i)
    \/ AttendanceReturn
    \/ RecognizeReturn
    \/ BulkImageReturn
    \/ GatherRaise
    \/ NextBulk

SpecFail == (InitFail \/ InitBulk) /\ [][NextFail]_vars

----------------------------------------------------------------------------
(* One batch while users are registered, updated and deleted *)

\* 1.0 for Alice, 0.8 once she has Bob's vector, 0.96 for Carol; 0.96 for Alice,
\* 0.6 once she has Bob's vector, 1.0 for Carol.
EnvFaceObjs ==
    { [has |-> "embedding", vec |-> <<6, 8>>],
      [has |-> "normed_embedding", vec |-> <<4, 3>>] }

\* The register request that arrives: carol, with a face whose embedding is (0.8, 0.6).
Carol ==
    [name |-> "carol", faces |-> << [has |-> "normed_embedding", vec |-> <<4, 3>>] >>,
     pc |-> "arrived"]

\* The updates that arrive for Alice: a new image (Bob's vector), or a new name.
AliceUpdates == { <<None, Bob.embedding>>, <<Some("alicia"), << >> >> }

InitEnv ==
    /\ MatchIdle
    /\ users = <<Alice>>
    /\ attendance_logs = << >>
    /\ recognition_history = << >>
    /\ kind \in {"attendance", "recognize"}
    /\ detected_faces \in UNION { [1..n -> EnvFaceObjs] : n \in 0..MaxFaces }
    /\ known_embeddings = << >>
    /\ processed_users = {}
    /\ task = << >>
    /\ embedding = << >>
    /\ results = << >>
    /\ persist_failed = {}
    /\ finished = << >>
    /\ hpc = "start"
    /\ resp = [status |-> "pending", items |-> << >>]
    /\ faults = {}
    /\ fetched = << >>
    /\ registering = <<Carol>>
    /\ files = << >>
    /\ images = << >>

\* The other requests are served until the batch has returned.
NextEnv ==
    \/ HandleNoFaces
    \/ HandleLaunch
    \/ \E i \in Faces : process_face_embedded(i)
    \/ \E i \in Faces : attendance_face_matched(i)
    \/ \E i \in Faces : recognize_face_matched(i)
    \/ AttendanceReturn
    \/ RecognizeReturn
    \/ GatherRaise
    \/ hpc # "returned" /\ \E user_id \in UserIds : delete_user(user_id)
    \/ hpc # "returned" /\ \E r \in DOMAIN registering : register_user_begin(r)
    \/ hpc # "returned" /\ \E r \in DOMAIN registering : register_user_finish(r)
    \/ hpc # "returned" /\ \E u \in AliceUpdates : update_user(Alice.id, u[1], u[2])

SpecEnv == InitEnv /\ [][NextEnv]_vars

----------------------------------------------------------------------------
(* Properties of one batch *)

\* What the match job of face i yields against the batch's gallery: None when the face
\* has no embedding, the gallery is empty or no entry scores above the threshold.
FaceMatch(i) ==
    LET e == get_embedding(detected_faces[i])
    IN  IF e = None \/ Len(known_embeddings) = 0 THEN None
        ELSE match_embedding(e, known_embeddings, Some(RouteThreshold))

Succeeded == hpc = "returned" /\ resp.status = "success"

LogsOf(user_id) ==
    { k \in DOMAIN attendance_logs : attendance_logs[k].user_id = user_id }

RecordsOf(user_id) ==
    { k \in DOMAIN resp.items : resp.items[k].user_id = user_id }

\* Two different faces of the batch best-match the same identity.
SharedIdentity ==
    \E i, j \in Faces :
        /\ i # j
        /\ FaceMatch(i) # None
        /\ FaceMatch(j) # None
        /\ FaceMatch(i)[1] = FaceMatch(j)[1]

(* C1: in one mark_attendance batch, for every interleaving and completion  *)
(* order of the per-face tasks, at most one attendance log is created and   *)
(* at most one record is returned per distinct user_id, however many        *)
(* detected faces best-match that identity.                                 *)

C1_OneLogPerIdentity ==
    kind = "attendance" =>
        \A user_id \in UserIds :
            /\ Cardinality(LogsOf(user_id)) <= 1
            /\ Cardinality(RecordsOf(user_id)) <= 1

\* A batch in which two faces best-match one identity has returned with one log and
\* one record for it.
C1_Witness ==
    /\ kind = "attendance"
    /\ Succeeded
    /\ SharedIdentity
    /\ Len(attendance_logs) = 1
    /\ Len(resp.items) = 1

(* C2: when several faces of one batch best-match the same identity, the    *)
(* face accepted and recorded for attendance is the one with the highest    *)
(* similarity score, for every completion order of the match tasks.         *)

C2_HighestScoreAccepted ==
    (kind = "attendance" /\ Succeeded) =>
        \A k \in DOMAIN resp.items : \A i \in Faces :
            (FaceMatch(i) # None /\ FaceMatch(i)[1] = resp.items[k].user_id)
                => FaceMatch(i)[2] <= resp.items[k].confidence

(* C3: when two faces of one batch best-match the same identity with equal  *)
(* top scores, the face with the lower position in detected_faces is the    *)
(* accepted one, whatever the completion order of the tasks.                *)

C3_TieLowerIndexAccepted ==
    (kind = "attendance" /\ Succeeded) =>
        \A k \in DOMAIN resp.items : \A i \in Faces :
            ( /\ FaceMatch(i) # None
              /\ FaceMatch(i)[1] = resp.items[k].user_id
              /\ FaceMatch(i)[2] = resp.items[k].confidence )
                => resp.items[k].face <= i

(* C4: a face that loses deduplication to another face of the same identity *)
(* in the same batch still has an outcome in the batch response, and the    *)
(* response never has fewer outcomes than input faces.                      *)

\* Face i best-matches an identity for which another face's record was returned.
LostDedup(i) ==
    /\ FaceMatch(i) # None
    /\ \E k \in DOMAIN resp.items :
          /\ resp.items[k].user_id = FaceMatch(i)[1]
          /\ resp.items[k].face # i

C4_LoserKeptInResponse ==
    (kind = "attendance" /\ Succeeded) =>
        \A i \in Faces :
            LostDedup(i) =>
                /\ \E k \in DOMAIN resp.items : resp.items[k].face = i
                /\ Len(resp.items) >= Len(detected_faces)

(* C5: for every batch of N detected faces and every completion order of    *)
(* the per-face tasks, the output of recognize_faces and of an image of     *)
(* recognize_bulk has exactly N outcomes and the i-th outcome belongs to    *)
(* the i-th detected face.                                                  *)

C5_OrderPreserved ==
    (kind \in {"recognize", "bulk"} /\ Succeeded) =>
        /\ Len(resp.items) = Len(detected_faces)
        /\ \A i \in DOMAIN resp.items :
              /\ resp.items[i].bbox = i
              /\ resp.items[i].user_id # None =>
                    /\ FaceMatch(i) # None
                    /\ resp.items[i].user_id = Some(FaceMatch(i)[1])
                    /\ resp.items[i].similarity = FaceMatch(i)[2]

\* A batch of two faces with different outcomes has returned, the task of the second
\* face having ended before the task of the first.
C5_Witness ==
    /\ kind \in {"recognize", "bulk"}
    /\ Succeeded
    /\ finished = <<2, 1>>
    /\ resp.items[1].user_id = None
    /\ resp.items[2].user_id # None

(* C6: no attendance record is written for a face of a batch before every   *)
(* match task of that batch has completed.                                  *)

C6_NoWriteBeforeAllMatched ==
    (kind = "attendance" /\ attendance_logs # << >>) =>
        \A i \in DOMAIN task : task[i] \in {"done", "raised"}

(* C7: for every face outcome of a completed batch, matched or not, exactly *)
(* one recognition-history record is written, so a batch of N faces adds    *)
(* exactly N history records, never deduplicated by identity.  As stated,   *)
(* for the recognize path and for the attendance-marking path:              *)

C7_HistoryPerFaceBothPaths ==
    (kind \in {"recognize", "attendance"} /\ Succeeded) =>
        Len(recognition_history) = Len(detected_faces)

(* C7 as amended: it holds of recognize_faces, where the k-th history row   *)
(* is the row of the k-th outcome; mark_attendance and recognize_bulk write *)
(* no recognition-history record at all.                                    *)

C7_HistoryPerFaceRecognize ==
    /\ (kind = "recognize" /\ Succeeded) =>
          /\ Len(recognition_history) = Len(detected_faces)
          /\ \A k \in DOMAIN recognition_history :
                /\ recognition_history[k].user_id = resp.items[k].user_id
                /\ recognition_history[k].confidence = resp.items[k].similarity
                /\ recognition_history[k].recognized =
                      (IF resp.items[k].user_id # None THEN "true" ELSE "false")
    /\ kind \in {"attendance", "bulk"} => recognition_history = << >>

\* recognize_faces has returned for two faces of one identity and one unmatched face
\* or for two faces, one recognized and one not: a row each.
C7_Witness ==
    /\ kind = "recognize"
    /\ Succeeded
    /\ Len(recognition_history) = 2
    /\ \E a, b \in DOMAIN recognition_history :
          /\ recognition_history[a].recognized = "false"
          /\ recognition_history[b].recognized = "true"

(* C8: if the persistence call fails for one outcome of a batch, the batch  *)
(* still returns a response (with the failed outcome flagged) instead of    *)
(* the whole batch failing.                                                 *)

C8_PersistenceFailureNotFatal ==
    (hpc = "returned" /\ persist_failed # {}) => resp.status = "success"

----------------------------------------------------------------------------
(* A direct call of FaceMatcher.match_embedding on arbitrary arguments *)

QueryVecs == { <<3, 4>>, <<4, 3>>, <<5, 0>>, <<0, 0>> }
GalleryVecs == { <<3, 4>>, <<5, 0>>, <<0, 0>>, <<-3, -4>> }
Thresholds == { None, Some(-100), Some(0), Some(60), Some(80), Some(96), Some(100) }

\* Lists of (user_id, embedding) of at most n entries, one entry per user id.
Galleries(n) ==
    { g \in UNION { [1..k -> UserIds \X GalleryVecs] : k \in 0..n } :
        \A i, j \in DOMAIN g : i # j => g[i][1] # g[j][1] }

\* The threshold match_embedding compares against.
EffectiveThreshold(threshold) ==
    IF threshold = None THEN similarity_threshold ELSE threshold[1]

BatchIdle ==
    /\ faults = {}
    /\ fetched = << >>
    /\ registering = << >>
    /\ files = << >>
    /\ images = << >>
    /\ users = << >>
    /\ attendance_logs = << >>
    /\ recognition_history = << >>
    /\ kind = "none"
    /\ detected_faces = << >>
    /\ known_embeddings = << >>
    /\ processed_users = {}
    /\ task = << >>
    /\ embedding = << >>
    /\ results = << >>
    /\ hpc = "idle"
    /\ resp = [status |-> "pending", items |-> << >>]
    /\ persist_failed = {}
    /\ finished = << >>

InitMatch ==
    /\ BatchIdle
    /\ ExtraIdle
    /\ m_query \in QueryVecs
    /\ m_gallery \in Galleries(MaxGallery)
    /\ m_threshold \in Thresholds
    /\ m_result = None
    /\ m_pc = "call"
    /\ m_top_k = 0
    /\ m_top = << >>

CallMatch ==
    /\ m_pc = "call"
    /\ m_pc' = "returned"
    /\ m_result' = match_embedding(m_query, m_gallery, m_threshold)
    /\ UNCHANGED <<m_query, m_gallery, m_threshold, m_top_k, m_top>>
    /\ UNCHANGED batchVars

NextMatch == CallMatch

SpecMatch == InitMatch /\ [][NextMatch]_vars

----------------------------------------------------------------------------
(* C9: match_embedding returns a candidate only if its score is strictly    *)
(* greater than the threshold; when every gallery entry scores less than or *)
(* equal to the threshold (equality included) the result is None.           *)

AllAtOrBelow ==
    \A k \in DOMAIN m_gallery :
        compute_similarity(m_query, m_gallery[k][2]) <= EffectiveThreshold(m_threshold)

C9_StrictThreshold ==
    m_pc = "returned" =>
        /\ m_result # None => m_result[2] > EffectiveThreshold(m_threshold)
        /\ AllAtOrBelow => m_result = None

\* A call has returned on a gallery holding an entry that scores exactly the threshold
\* and none above it.
C9_Witness ==
    /\ m_pc = "returned"
    /\ m_result = None
    /\ AllAtOrBelow
    /\ \E k \in DOMAIN m_gallery :
          compute_similarity(m_query, m_gallery[k][2]) = EffectiveThreshold(m_threshold)

(* C10: match_embedding returns None for an empty gallery, for every query  *)
(* and every threshold value.                                               *)

C10_EmptyGallery ==
    (m_pc = "returned" /\ m_gallery = << >>) => m_result = None

\* A call on the empty gallery has returned, with an explicit threshold below zero.
C10_Witness ==
    /\ m_pc = "returned"
    /\ m_gallery = << >>
    /\ m_threshold = Some(-100)

(* C11: when several gallery entries attain the same maximal score above    *)
(* the threshold, match_embedding returns the one that comes first in       *)
(* gallery order (the result is a function of the arguments, so a repeated  *)
(* call returns the same identity).                                         *)

Score(k) == compute_similarity(m_query, m_gallery[k][2])

C11_FirstOfTiedWins ==
    (m_pc = "returned" /\ m_result # None) =>
        \E k \in DOMAIN m_gallery :
            /\ m_gallery[k][1] = m_result[1]
            /\ \A j \in DOMAIN m_gallery : Score(j) <= Score(k)
            /\ \A j \in DOMAIN m_gallery : j < k => Score(j) < Score(k)

\* A call has returned the first of two entries that tie at the maximal score.
C11_Witness ==
    /\ m_pc = "returned"
    /\ m_result # None
    /\ \E j, k \in DOMAIN m_gallery :
          /\ j < k
          /\ Score(j) = Score(k)
          /\ Score(j) = m_result[2]
          /\ m_gallery[j][1] = m_result[1]

(* C12: when match_embedding returns (id, s), s is the score of entry id, s *)
(* is at least the score of every gallery entry and s is strictly above the *)
(* threshold; it returns None exactly when no gallery entry scores strictly *)
(* above the threshold.                                                     *)

C12_BestAboveThreshold ==
    m_pc = "returned" =>
        /\ m_result # None =>
              /\ \E k \in DOMAIN m_gallery :
                    m_gallery[k][1] = m_result[1] /\ Score(k) = m_result[2]
              /\ \A j \in DOMAIN m_gallery : Score(j) <= m_result[2]
              /\ m_result[2] > EffectiveThreshold(m_threshold)
        /\ m_result = None <=>
              ~ \E k \in DOMAIN m_gallery : Score(k) > EffectiveThreshold(m_threshold)

\* A call has returned the first entry of a gallery whose second entry also scores
\* above the threshold, but lower.
C12_Witness ==
    /\ m_pc = "returned"
    /\ m_result # None
    /\ Len(m_gallery) >= 2
    /\ m_gallery[1][1] = m_result[1]
    /\ Score(2) < Score(1)
    /\ Score(2) > EffectiveThreshold(m_threshold)

----------------------------------------------------------------------------
(* A direct call of FaceMatcher.get_top_matches on arbitrary arguments *)

InitTopK ==
    /\ BatchIdle
    /\ ExtraIdle
    /\ m_query \in QueryVecs
    /\ m_gallery \in Galleries(MaxGallery)
    /\ m_threshold = None
    /\ m_result = None
    /\ m_pc = "call_top"
    /\ m_top_k \in 0..MaxTopK
    /\ m_top = << >>

CallTopK ==
    /\ m_pc = "call_top"
    /\ m_pc' = "returned"
    /\ m_top' = get_top_matches(m_query, m_gallery, m_top_k)
    /\ UNCHANGED <<m_query, m_gallery, m_threshold, m_result, m_top_k>>
    /\ UNCHANGED batchVars

NextTopK == CallTopK

SpecTopK == InitTopK /\ [][NextTopK]_vars

(* C13: get_top_matches scores every gallery entry and returns the first    *)
(* min(k, gallery size) of them in non-increasing score order, with entries *)
(* of equal score kept in their original gallery order.                     *)

\* Entry j comes before entry k in that order.
Precedes(j, k) == Score(j) > Score(k) \/ (Score(j) = Score(k) /\ j < k)

Rank(k) == 1 + Cardinality({ j \in DOMAIN m_gallery : Precedes(j, k) })

C13_TopKStableDescending ==
    m_pc = "returned" =>
        /\ Len(m_top) = (IF m_top_k < Len(m_gallery) THEN m_top_k ELSE Len(m_gallery))
        /\ \A r \in DOMAIN m_top :
              \E k \in DOMAIN m_gallery :
                  /\ Rank(k) = r
                  /\ m_top[r] = <<m_gallery[k][1], Score(k)>>

\* A call with top_k = 1 has returned the first of two entries of equal score.
C13_Witness ==
    /\ m_pc = "returned"
    /\ m_top_k = 1
    /\ Len(m_gallery) = 2
    /\ Score(1) = Score(2)
    /\ m_top = << <<m_gallery[1][1], Score(1)>> >>

----------------------------------------------------------------------------
(* Degenerate batches and aborted batches *)

(* C16: a mark_attendance or recognize_faces batch whose detection step     *)
(* yields zero faces returns success with an empty outcome list and does no *)
(* gallery fetch, starts no per-face task and writes no attendance or       *)
(* recognition-history row; an image of recognize_bulk without faces also   *)
(* succeeds with no outcome, no task and no write.                          *)

C16_NoFacesNoWork ==
    (hpc = "returned" /\ Len(detected_faces) = 0) =>
        /\ resp = [status |-> "success", items |-> << >>]
        /\ task = << >>
        /\ attendance_logs = << >>
        /\ recognition_history = << >>
        /\ kind \in {"attendance", "recognize"} =>
              /\ fetched = << >>
              /\ known_embeddings = << >>

\* A batch without faces has returned while users were enrolled.
C16_Witness ==
    /\ kind \in {"attendance", "recognize"}
    /\ hpc = "returned"
    /\ Len(detected_faces) = 0
    /\ users # << >>
    /\ resp.status = "success"

(* C17: with a gallery that was empty when the batch fetched it, a batch of *)
(* N >= 1 faces has every face unmatched, no task raises, no attendance log *)
(* is written, and unless a recognition-history insert fails the response   *)
(* is a success whose outcomes all have a null identity.                    *)

C17_EmptyGalleryAllUnmatched ==
    (fetched # << >> /\ fetched[1] = << >> /\ Len(detected_faces) > 0) =>
        /\ attendance_logs = << >>
        /\ \A i \in DOMAIN task :
              /\ task[i] \in {"embedding", "done"}
              /\ task[i] = "done" =>
                    results[i] = (IF kind = "attendance" THEN None ELSE Unknown(i))
        /\ (hpc = "returned" /\ persist_failed = {}) =>
              /\ resp.status = "success"
              /\ kind = "attendance" => resp.items = << >>
              /\ kind \in {"recognize", "bulk"} =>
                    /\ Len(resp.items) = Len(detected_faces)
                    /\ \A i \in DOMAIN resp.items : resp.items[i].user_id = None

\* recognize_faces has returned for two faces that both carry an embedding, the
\* gallery having been empty.
C17_Witness ==
    /\ kind = "recognize"
    /\ Succeeded
    /\ fetched = << << >> >>
    /\ Len(resp.items) = 2
    /\ \A i \in Faces : embedding[i] # None

(* C20: once a batch has failed because one task raised and the failure has *)
(* been returned to the caller, no task of that batch writes an attendance  *)
(* or recognition record afterwards.                                        *)

C20_NoWriteAfterAbort ==
    [][ (hpc = "returned" /\ resp.status = "error") =>
            /\ attendance_logs' = attendance_logs
            /\ recognition_history' = recognition_history ]_vars

----------------------------------------------------------------------------
(* Failures *)

(* C15: in a recognize_bulk request, among the faces of any single image at *)
(* most one face is reported as a given identity.                           *)

ReportedAs(f, user_id) ==
    { i \in DOMAIN resp.items[f].faces :
        resp.items[f].faces[i].user_id = Some(user_id) }

C15_OneFacePerIdentityPerImage ==
    (kind = "recognize_bulk" /\ Succeeded) =>
        \A f \in DOMAIN resp.items : \A user_id \in UserIds :
            Cardinality(ReportedAs(f, user_id)) <= 1

(* C18: a face whose embedding is missing, cannot be read or has another    *)
(* length than the gallery's vectors is never reported as an ordinary       *)
(* unmatched outcome: the batch ends in an error.                           *)

BadEmbedding(face_obj) ==
    face_obj.has \in {"none", "raises"} \/ face_obj = ShortFace

C18_BadEmbeddingIsError ==
    ( /\ kind \in BatchKinds
      /\ hpc = "returned"
      /\ \E i \in Faces : BadEmbedding(detected_faces[i]) )
        => resp.status = "error"

(* C19: if the detector, the embedder or a persistence call fails during a  *)
(* batch, the batch ends in one top-level failure without match results,    *)
(* for single-image batches and for each request of the bulk path.          *)

\* A call of the detector, of the database or of the matcher raised in this batch.
CollaboratorFailed ==
    \/ "detect_faces" \in faults
    \/ "get_all_embeddings" \in faults /\ Len(detected_faces) > 0
    \/ persist_failed # {}
    \/ \E i \in DOMAIN task : task[i] = "raised"

EmbedderFailed == \E i \in Faces : detected_faces[i].has = "raises"

\* The processing of file f of a bulk request raised.
ImageRaised(f) ==
    \/ files[f].content = "detector_raises"
    \/ \E i \in DOMAIN images[f].task : images[f].task[i] = "raised"

Failure == [status |-> "error", items |-> << >>]

----------------------------------------------------------------------------
(* Concurrent changes of the users table *)

\* What the match job of face i yields against the users table as the batch's
\* gallery fetch saw it.
SnapshotMatch(i) ==
    LET e == get_embedding(detected_faces[i])
        gallery == LoadKnownEmbeddings(fetched[1])
    IN  IF e = None \/ Len(gallery) = 0 THEN None
        ELSE match_embedding(e, gallery, Some(RouteThreshold))

\* The same against the users table as it is now.
LiveMatch(i) ==
    LET e == get_embedding(detected_faces[i])
        gallery == LoadKnownEmbeddings(users)
    IN  IF e = None \/ Len(gallery) = 0 THEN None
        ELSE match_embedding(e, gallery, Some(RouteThreshold))

\* The outcome of face i of recognize_faces had the table stayed as it was fetched.
SnapshotOutcome(i) ==
    LET m == SnapshotMatch(i)
    IN  IF m = None THEN Unknown(i)
        ELSE Recognized(i, m[1], get_user(fetched[1], m[1]).name, m[2])

(* C14: an identity enrolled, re-enrolled or deleted by a concurrent        *)
(* request after a batch has taken its gallery snapshot does not change any *)
(* outcome of the batch: each face's outcome is what it would be had the    *)
(* change not happened.                                                     *)

C14_OutcomeAsIfUnchanged ==
    (kind = "recognize" /\ Succeeded) =>
        \A i \in Faces : resp.items[i] = SnapshotOutcome(i)

(* C14 as amended: the identity and the score of every outcome are those of *)
(* the match against the snapshot, whatever was enrolled or re-enrolled     *)
(* since; a face whose matched user was deleted before its match job ended  *)
(* is reported as unmatched (no record and no log in mark_attendance), and  *)
(* a matched user that still exists when the batch returns is reported.     *)

C14_SnapshotDecidesMatch ==
    (kind \in BatchKinds /\ Succeeded /\ Len(detected_faces) > 0) =>
        IF kind = "attendance"
        THEN /\ \A k \in DOMAIN resp.items :
                   LET m == SnapshotMatch(resp.items[k].face)
                   IN  /\ m # None
                       /\ resp.items[k].user_id = m[1]
                       /\ resp.items[k].confidence = m[2]
             /\ \A i \in Faces :
                   LET m == SnapshotMatch(i)
                   IN  (m # None /\ get_user(users, m[1]) # None) =>
                           \E k \in DOMAIN resp.items : resp.items[k].user_id = m[1]
        ELSE \A i \in Faces :
                 LET m == SnapshotMatch(i)
                 IN  IF m = None THEN resp.items[i].user_id = None
                     ELSE \/ /\ resp.items[i].user_id = Some(m[1])
                             /\ resp.items[i].similarity = m[2]
                          \/ /\ resp.items[i] = Unknown(i)
                             /\ get_user(users, m[1]) = None

\* recognize_faces has returned a face as the snapshot's match although a match
\* against the table as it is now gives another identity or another score.
C14_Witness ==
    /\ kind = "recognize"
    /\ Succeeded
    /\ \E i \in Faces :
          /\ SnapshotMatch(i) # None
          /\ LiveMatch(i) # None
          /\ LiveMatch(i) # SnapshotMatch(i)
          /\ resp.items[i].user_id = Some(SnapshotMatch(i)[1])
          /\ resp.items[i].similarity = SnapshotMatch(i)[2]

----------------------------------------------------------------------------
(* A direct call of compute_similarity, or of the codec on one vector *)

\* Vectors of norm 0, 5 and 10 and of length 0, 1, 2 and 3.
SimVecs ==
    { << >>, <<0>>, <<5>>, <<0, 0>>, <<3, 4>>, <<4, 3>>, <<-3, -4>>, <<5, 0>>, <<6, 8>>,
      <<0, 0, 0>>, <<3, 0, 4>> }

\* 32-bit words: zero, small and large, of both signs.
CodecWords ==
    { 0, 1, -1, 5, -5, 255, 256, -256, 65536, 16777216, -16777216, 2147483647,
      -2147483647 }

CodecVecs == { << >> } \cup { <<w>> : w \in CodecWords } \cup (CodecWords \X CodecWords)

InitCall ==
    /\ BatchIdle
    /\ m_query = << >>
    /\ m_gallery = << >>
    /\ m_threshold = None
    /\ m_result = None
    /\ m_pc = "idle"
    /\ m_top_k = 0
    /\ m_top = << >>
    /\ pool = << >>
    /\ batches = << >>
    /\ call \in { [fn |-> "compute_similarity", embedding1 |-> a, embedding2 |-> b,
                   pc |-> "call", result |-> 0] : a \in SimVecs, b \in SimVecs }
            \cup { [fn |-> "codec", embedding |-> v, bytes |-> << >>, pc |-> "call",
                    result |-> << >>] : v \in CodecVecs }

\* compute_similarity(embedding1, embedding2): np.dot raises for different lengths.
CallComputeSimilarity ==
    /\ call.fn = "compute_similarity"
    /\ call.pc = "call"
    /\ call' = IF Len(call.embedding1) # Len(call.embedding2)
               THEN [call EXCEPT !.pc = "raised"]
               ELSE [call EXCEPT !.pc = "returned",
                        !.result = compute_similarity(call.embedding1, call.embedding2)]
    /\ UNCHANGED <<users, attendance_logs, recognition_history, kind, detected_faces,
                   known_embeddings, processed_users, task, embedding, results, hpc,
                   resp, persist_failed, finished, faults, fetched, registering, files,
                   images, pool, batches>>
    /\ UNCHANGED <<m_query, m_gallery, m_threshold, m_result, m_pc, m_top_k, m_top>>

CallEmbeddingToBytes ==
    /\ call.fn = "codec"
    /\ call.pc = "call"
    /\ call' = [call EXCEPT !.pc = "encoded", !.bytes = embedding_to_bytes(call.embedding)]
    /\ UNCHANGED <<users, attendance_logs, recognition_history, kind, detected_faces,
                   known_embeddings, processed_users, task, embedding, results, hpc,
                   resp, persist_failed, finished, faults, fetched, registering, files,
                   images, pool, batches>>
    /\ UNCHANGED <<m_query, m_gallery, m_threshold, m_result, m_pc, m_top_k, m_top>>

CallBytesToEmbedding ==
    /\ call.fn = "codec"
    /\ call.pc = "encoded"
    /\ call' = [call EXCEPT !.pc = "decoded", !.result = bytes_to_embedding(call.bytes)]
    /\ UNCHANGED <<users, attendance_logs, recognition_history, kind, detected_faces,
                   known_embeddings, processed_users, task, embedding, results, hpc,
                   resp, persist_failed, finished, faults, fetched, registering, files,
                   images, pool, batches>>
    /\ UNCHANGED <<m_query, m_gallery, m_threshold, m_result, m_pc, m_top_k, m_top>>

NextCall ==
    \/ CallComputeSimilarity
    \/ CallEmbeddingToBytes
    \/ CallBytesToEmbedding

SpecCall == InitCall /\ [][NextCall]_vars

ZeroNorm(v) == Norm(v) = 0

(* C21: compute_similarity returns exactly 0.0 whenever either argument has *)
(* zero norm, including when both do, and never raises in that case.        *)

C21_ZeroNormGivesZero ==
    ( /\ call.fn = "compute_similarity"
      /\ call.pc # "call"
      /\ ZeroNorm(call.embedding1) \/ ZeroNorm(call.embedding2) )
        => (call.pc = "returned" /\ call.result = 0)

(* C21 as amended: for two arguments of the same length it returns exactly  *)
(* 0.0 whenever either has zero norm; for arguments of different lengths    *)
(* the call raises, a zero vector among them or not.                        *)

C21_ZeroNormGivesZeroSameLength ==
    (call.fn = "compute_similarity" /\ call.pc # "call") =>
        IF Len(call.embedding1) # Len(call.embedding2)
        THEN call.pc = "raised"
        ELSE /\ call.pc = "returned"
             /\ (ZeroNorm(call.embedding1) \/ ZeroNorm(call.embedding2))
                    => call.result = 0

\* The call has returned 0 for a zero vector and a vector of norm 1.
C21_Witness ==
    /\ call.fn = "compute_similarity"
    /\ call.pc = "returned"
    /\ call.embedding1 = <<3, 4>>
    /\ call.embedding2 = <<0, 0>>
    /\ call.result = 0

(* C22: compute_similarity is symmetric: for all vectors a and b of equal   *)
(* length, compute_similarity(a, b) equals compute_similarity(b, a).        *)

C22_Symmetric ==
    (call.fn = "compute_similarity" /\ call.pc = "returned") =>
        call.result = compute_similarity(call.embedding2, call.embedding1)

\* The call has returned for two vectors of different norms that are not orthogonal.
C22_Witness ==
    /\ call.fn = "compute_similarity"
    /\ call.pc = "returned"
    /\ Norm(call.embedding1) # Norm(call.embedding2)
    /\ call.result > 0

(* C23: for every vector v of 32-bit words,                                 *)
(* bytes_to_embedding(embedding_to_bytes(v)) has the length of v and the    *)
(* same elements, element by element, zero and negative values included.    *)

C23_CodecRoundTrip ==
    (call.fn = "codec" /\ call.pc # "call") =>
        /\ Len(call.bytes) = 4 * Len(call.embedding)
        /\ call.pc = "decoded" =>
              /\ Len(call.result) = Len(call.embedding)
              /\ \A k \in DOMAIN call.embedding : call.result[k] = call.embedding[k]

\* A vector with a zero and a negative element has been encoded and decoded.
C23_Witness ==
    /\ call.fn = "codec"
    /\ call.pc = "decoded"
    /\ call.embedding = <<0, -16777216>>
    /\ Len(call.result) = 2

----------------------------------------------------------------------------
(* The users table under register, update and delete requests alone *)

\* The images that arrive with an update: Bob's vector, or (0.8, 0.6).
NewImages == { Bob.embedding, embedding_to_bytes(<<4, 3>>) }

\* The ids of the rows of a table.
IdsOf(db_users) == { db_users[k].id : k \in DOMAIN db_users }

\* Two register requests under one name, so that both can pass the name check
\* before either row is written.
InitUsers ==
    /\ MatchIdle
    /\ users \in UserTables
    /\ attendance_logs = << >>
    /\ recognition_history = << >>
    /\ kind = "none"
    /\ detected_faces = << >>
    /\ known_embeddings = << >>
    /\ processed_users = {}
    /\ task = << >>
    /\ embedding = << >>
    /\ results = << >>
    /\ persist_failed = {}
    /\ finished = << >>
    /\ hpc = "idle"
    /\ resp = [status |-> "pending", items |-> << >>]
    /\ faults = {}
    /\ fetched = << >>
    /\ registering = <<Carol, Carol>>
    /\ files = << >>
    /\ images = << >>

NextUsers ==
    \/ \E r \in DOMAIN registering : register_user_begin(r)
    \/ \E r \in DOMAIN registering : register_user_finish(r)
    \/ \E user_id \in IdsOf(users) : \E name \in {None, Some("alicia")} :
         \E embedding_bytes \in NewImages \cup {<< >>} :
           update_user(user_id, name, embedding_bytes)
    \/ \E user_id \in IdsOf(users) : delete_user(user_id)

SpecUsers == InitUsers /\ [][NextUsers]_vars

\* The positions of get_all_embeddings' result that hold an entry for this id.
EntriesOf(db_users, user_id) ==
    { k \in DOMAIN get_all_embeddings(db_users) :
        get_all_embeddings(db_users)[k][1] = user_id }

\* C24: after every register, update or delete, get_all_embeddings holds exactly one
\* entry for each user id of the table; and a step that gives an existing user a new
\* embedding leaves the ids of the table as they were, the user's one entry then
\* holding the new embedding.
C24_OneEntryPerUserId ==
    [][ /\ \A user_id \in IdsOf(users') :
             Cardinality(EntriesOf(users', user_id)) = 1
        /\ Len(get_all_embeddings(users')) = Cardinality(IdsOf(users'))
        /\ \A k \in DOMAIN users :
             LET now == { j \in DOMAIN users' : users'[j].id = users[k].id }
             IN  (\E j \in now : users'[j].embedding # users[k].embedding)
                 => /\ Cardinality(now) = 1
                    /\ [ j \in DOMAIN users' |-> users'[j].id ]
                         = [ j \in DOMAIN users |-> users[j].id ] ]_vars

\* Both register requests have written their row, Alice has been given a new
\* embedding and Bob has been deleted.
C24_Witness ==
    /\ \A r \in DOMAIN registering : registering[r].pc = "registered"
    /\ \E k \in DOMAIN users :
         users[k].id = "u1" /\ users[k].embedding = embedding_to_bytes(<<4, 3>>)
    /\ IdsOf(users) = {"u1", "u3", "u4"}

----------------------------------------------------------------------------
(* One batch whose handler and tasks are always run on *)

\* The steps of the handler and of its tasks: the event loop resumes every coroutine
\* whose awaited job or gather is done, and the pool runs every job it was given.
BatchStep ==
    \/ HandleNoFaces
    \/ HandleLaunch
    \/ \E i \in Faces : process_face_embedded(i)
    \/ \E i \in Faces : attendance_face_matched(i)
    \/ \E i \in Faces : recognize_face_matched(i)
    \/ AttendanceReturn
    \/ RecognizeReturn
    \/ BulkImageReturn
    \/ GatherRaise

SpecFair == Init /\ [][Next]_vars /\ WF_vars(BatchStep)

\* Task i is suspended after its processed_users test (attendance.py:139) and before
\* its processed_users.add (attendance.py:155).
BetweenCheckAndAdd(i) ==
    /\ kind = "attendance"
    /\ i \in DOMAIN task
    /\ task[i] = "checked"

\* Two tasks of the batch have both passed the test for one identity and neither has
\* added it yet.
RaceState ==
    \E i, j \in DOMAIN task :
        /\ i # j
        /\ BetweenCheckAndAdd(i)
        /\ BetweenCheckAndAdd(j)
        /\ FaceMatch(i) # None
        /\ FaceMatch(j) # None
        /\ FaceMatch(i)[1] = FaceMatch(j)[1]
        /\ FaceMatch(i)[1] \notin processed_users

----------------------------------------------------------------------------
(* Which face of an identity mark_attendance accepts *)

\* Faces i and j of the batch best-match the same identity of the snapshot.
SameIdentity(i, j) ==
    /\ i # j
    /\ FaceMatch(i) # None
    /\ FaceMatch(j) # None
    /\ FaceMatch(i)[1] = FaceMatch(j)[1]

\* Task i ended, and so went through the processed_users test if its face matched,
\* before task j did.
FinishedBefore(i, j) ==
    \E a, b \in DOMAIN finished : finished[a] = i /\ finished[b] = j /\ a < b

\* The faces for which an attendance log was written.
AcceptedFaces == { attendance_logs[k].face : k \in DOMAIN attendance_logs }

----------------------------------------------------------------------------
(* When the handler answers *)

\* The tasks of the batch that have neither returned nor raised.
RunningTasks == { i \in DOMAIN task : task[i] \notin {"done", "raised"} }

\* C27: when a batch has returned its response, success or failure, every per-face
\* task it launched has finished, so none is still running or able to write.
C27_ResponseAfterAllTasks ==
    (kind \in BatchKinds /\ hpc = "returned") => RunningTasks = {}

----------------------------------------------------------------------------
(* The worker pools: executor = ThreadPoolExecutor(max_workers=4), one per module *)

\* The pool of attendance.py and the pool of recognize.py.
Executors == {"attendance", "recognize"}

\* The process_face tasks in flight, over all requests: pool.pc[t] is the position of
\* task t, pool.exec[t] the pool its module submits to, pool.queue[e] the work queue
\* of pool e, oldest job first (a task has at most one job outstanding).
PoolTasks == DOMAIN pool.pc

\* The jobs that a worker thread of pool e is executing.
Running(e) ==
    { t \in PoolTasks : pool.exec[t] = e /\ pool.pc[t] \in {"emb_running", "match_running"} }

\* The jobs submitted to pool e that no worker thread has taken yet.
Waiting(e) ==
    { t \in PoolTasks : pool.exec[t] = e /\ pool.pc[t] \in {"emb_queued", "match_queued"} }

\* MaxJobs tasks, one more than a pool has workers: tasks 1..k belong to
\* mark_attendance requests, the others to recognize requests.  A task that has not
\* submitted yet is as good as absent, so smaller numbers of tasks are covered.
InitPool ==
    /\ BatchIdle
    /\ m_query = << >>
    /\ m_gallery = << >>
    /\ m_threshold = None
    /\ m_result = None
    /\ m_pc = "idle"
    /\ m_top_k = 0
    /\ m_top = << >>
    /\ call = << >>
    /\ batches = << >>
    /\ \E k \in {MaxJobs - 1, MaxJobs} :
         pool = [pc |-> [t \in 1..MaxJobs |-> "start"],
                 exec |-> [t \in 1..MaxJobs |->
                             IF t <= k THEN "attendance" ELSE "recognize"],
                 queue |-> [e \in Executors |-> << >>]]

\* What a step of a pool or of a task submitting to it leaves alone.
poolIdleVars == <<users, attendance_logs, recognition_history, kind, detected_faces,
                  known_embeddings, processed_users, task, embedding, results, hpc,
                  resp, persist_failed, finished, faults, fetched, registering, files,
                  images, m_query, m_gallery, m_threshold, m_result, m_pc, m_top_k,
                  m_top, call, batches>>

\* process_face up to its first await: run_in_executor submits the get_embedding job.
\* The tasks of one gather, and the requests of one module, start in order.
PoolSubmitEmbedding(t) ==
    /\ t \in PoolTasks
    /\ pool.pc[t] = "start"
    /\ \A s \in PoolTasks : (s < t /\ pool.exec[s] = pool.exec[t]) => pool.pc[s] # "start"
    /\ pool' = [pool EXCEPT !.pc[t] = "emb_queued",
                            !.queue[pool.exec[t]] = Append(@, t)]
    /\ UNCHANGED poolIdleVars

\* A worker thread taking the oldest job of the queue, with no limit on the threads.
PoolWorkerTakeUnbounded(e) ==
    /\ pool.queue[e] # << >>
    /\ LET t == Head(pool.queue[e])
       IN  pool' = [pool EXCEPT !.queue[e] = Tail(@),
                                !.pc[t] = IF @ = "emb_queued" THEN "emb_running"
                                          ELSE "match_running"]
    /\ UNCHANGED poolIdleVars

\* A worker thread of pool e takes the oldest job of its queue: the pool starts a
\* thread for a submitted job only while it has fewer than max_workers threads, and a
\* thread executes one job at a time.
PoolWorkerTake(e) ==
    /\ pool.queue[e] # << >>
    /\ Cardinality(Running(e)) < max_workers
    /\ LET t == Head(pool.queue[e])
       IN  pool' = [pool EXCEPT !.queue[e] = Tail(@),
                                !.pc[t] = IF @ = "emb_queued" THEN "emb_running"
                                          ELSE "match_running"]
    /\ UNCHANGED poolIdleVars

\* A job that ends only once no job waits in the queue of its pool.
PoolJobDoneAfterQueued(t) ==
    /\ t \in PoolTasks
    /\ pool.pc[t] \in {"emb_running", "match_running"}
    /\ pool.queue[pool.exec[t]] = << >>
    /\ pool' = [pool EXCEPT !.pc[t] = IF @ = "emb_running" THEN "embedded" ELSE "done"]
    /\ UNCHANGED poolIdleVars

\* The job of task t ends and its worker thread is free again: get_embedding and
\* match_embedding submit nothing to a pool and wait for no other job.
PoolJobDone(t) ==
    /\ t \in PoolTasks
    /\ pool.pc[t] \in {"emb_running", "match_running"}
    /\ pool' = [pool EXCEPT !.pc[t] = IF @ = "emb_running" THEN "embedded" ELSE "done"]
    /\ UNCHANGED poolIdleVars

\* process_face resumed with its embedding: it returns (no embedding, or an empty
\* gallery) or submits the match_embedding job.
PoolResume(t) ==
    /\ t \in PoolTasks
    /\ pool.pc[t] = "embedded"
    /\ \/ pool' = [pool EXCEPT !.pc[t] = "done"]
       \/ pool' = [pool EXCEPT !.pc[t] = "match_queued",
                               !.queue[pool.exec[t]] = Append(@, t)]
    /\ UNCHANGED poolIdleVars



NextPool ==
    \/ \E t \in PoolTasks : PoolSubmitEmbedding(t)
    \/ \E e \in Executors : PoolWorkerTake(e)
    \/ \E t \in PoolTasks : PoolJobDone(t)
    \/ \E t \in PoolTasks : PoolResume(t)

SpecPool == InitPool /\ [][NextPool]_vars

\* The tasks of pool e that have a job submitted and not ended.
Outstanding(e) ==
    { t \in PoolTasks : pool.exec[t] = e
                        /\ pool.pc[t] \in {"emb_queued", "emb_running",
                                           "match_queued", "match_running"} }

\* C28: in each worker pool at most max_workers = 4 embedding and match jobs execute
\* at the same time, whatever the number of tasks and requests; every other job
\* submitted to the pool and not ended is in the pool's queue, once.
C28_AtMostFourRunning ==
    \A e \in Executors :
        /\ Cardinality(Running(e)) <= max_workers
        /\ Outstanding(e) \ Running(e) = { pool.queue[e][k] : k \in DOMAIN pool.queue[e] }
        /\ Cardinality(Waiting(e)) = Len(pool.queue[e])

\* Four jobs of one pool are executing and a fifth waits in its queue.
C28_Witness ==
    \E e \in Executors :
        /\ Cardinality(Running(e)) = max_workers
        /\ pool.queue[e] # << >>

----------------------------------------------------------------------------
(* The gallery snapshot of a batch *)

\* The gallery built from the users table as it was when the handler fetched it.
SnapshotAtLaunch == LoadKnownEmbeddings(fetched[1])

\* C30: once the per-face tasks of a batch are launched, and until the batch ends,
\* known_embeddings is the complete gallery of the users table as it was at the one
\* fetch before the launch: no task, and no concurrent register, update or delete,
\* adds, removes or changes an entry of it.
C30_SnapshotUnchanged ==
    (kind \in {"attendance", "recognize"} /\ task # << >>) =>
        /\ Len(fetched) = 1
        /\ known_embeddings = SnapshotAtLaunch
        /\ Len(known_embeddings) = Len(fetched[1])

\* A batch has ended after the users table changed under it, and its gallery is
\* still the one of the table at the fetch.
C30_Witness ==
    /\ kind \in {"attendance", "recognize"}
    /\ Succeeded
    /\ task # << >>
    /\ Len(fetched) = 1
    /\ users # fetched[1]
    /\ LoadKnownEmbeddings(users) # SnapshotAtLaunch
    /\ known_embeddings = SnapshotAtLaunch
    /\ known_embeddings # << >>

----------------------------------------------------------------------------
(* Two mark_attendance requests in flight on one event loop *)

\* batches[b] holds the locals of request b: detected_faces, known_embeddings,
\* processed_users, the per-face tasks with their embeddings and results, the
\* handler's position and response.  logged is history: the positions in
\* attendance_logs of the rows that tasks of request b inserted.
Batches == DOMAIN batches

\* A face of Alice (1.0).
TwoFaceObjs == { [has |-> "embedding", vec |-> <<6, 8>>] }

InitTwo ==
    /\ m_query = << >>
    /\ m_gallery = << >>
    /\ m_threshold = None
    /\ m_result = None
    /\ m_pc = "idle"
    /\ m_top_k = 0
    /\ m_top = << >>
    /\ call = << >>
    /\ pool = << >>
    /\ users = <<Alice>>
    /\ attendance_logs = << >>
    /\ recognition_history = << >>
    /\ kind = "none"
    /\ detected_faces = << >>
    /\ known_embeddings = << >>
    /\ processed_users = {}
    /\ task = << >>
    /\ embedding = << >>
    /\ results = << >>
    /\ persist_failed = {}
    /\ finished = << >>
    /\ hpc = "idle"
    /\ resp = [status |-> "pending", items |-> << >>]
    /\ faults = {}
    /\ fetched = << >>
    /\ registering = << >>
    /\ files = << >>
    /\ images = << >>
    /\ batches \in
         [ 1..2 ->
             { [detected_faces |-> f, known_embeddings |-> << >>,
                processed_users |-> {}, task |-> << >>, embedding |-> << >>,
                results |-> << >>, hpc |-> "start",
                resp |-> [status |-> "pending", items |-> << >>], logged |-> {}] :
               f \in UNION { [1..n -> TwoFaceObjs] : n \in 0..MaxFaces } } ]

\* What a step of one of the two requests leaves alone.
twoIdleVars == <<users, recognition_history, kind, detected_faces, known_embeddings,
                 processed_users, task, embedding, results, hpc, resp, persist_failed,
                 finished, faults, fetched, registering, files, images, m_query,
                 m_gallery, m_threshold, m_result, m_pc, m_top_k, m_top, call, pool>>

\* mark_attendance of request b from detection to its return for no face or to its
\* await of gather: the gallery, a fresh processed_users, one task per face.
BatchLaunch(b) ==
    /\ b \in Batches
    /\ batches[b].hpc = "start"
    /\ LET faces == DOMAIN batches[b].detected_faces
       IN  IF faces = {}
           THEN batches' = [batches EXCEPT
                    ![b].resp = [status |-> "success", items |-> << >>],
                    ![b].hpc = "returned"]
           ELSE batches' = [batches EXCEPT
                    ![b].known_embeddings = LoadKnownEmbeddings(users),
                    ![b].processed_users = {},
                    ![b].task = [i \in faces |-> "embedding"],
                    ![b].embedding = [i \in faces |-> None],
                    ![b].results = [i \in faces |-> None],
                    ![b].hpc = "gather"]
    /\ UNCHANGED attendance_logs
    /\ UNCHANGED twoIdleVars

\* process_face of request b from the end of the get_embedding job to its next await
\* or return.
batch_face_embedded(b, i) ==
    /\ b \in Batches
    /\ i \in DOMAIN batches[b].task
    /\ batches[b].task[i] = "embedding"
    /\ LET e == get_embedding(batches[b].detected_faces[i])
       IN  IF e = None
           THEN batches' = [batches EXCEPT ![b].task[i] = "done"]
           ELSE IF Len(batches[b].known_embeddings) > 0
           THEN batches' = [batches EXCEPT ![b].embedding[i] = e,
                                           ![b].task[i] = "matching"]
           ELSE batches' = [batches EXCEPT ![b].embedding[i] = e,
                                           ![b].task[i] = "done"]
    /\ UNCHANGED attendance_logs
    /\ UNCHANGED twoIdleVars

\* The same step of process_face if processed_users were one set for all requests.
batch_face_matched_shared_set(b, i) ==
    /\ b \in Batches
    /\ i \in DOMAIN batches[b].task
    /\ batches[b].task[i] = "matching"
    /\ LET match_result == match_embedding(batches[b].embedding[i],
                                           batches[b].known_embeddings,
                                           Some(RouteThreshold))
       IN  IF match_result = None
           THEN /\ batches' = [batches EXCEPT ![b].task[i] = "done"]
                /\ UNCHANGED attendance_logs
           ELSE LET user_id == match_result[1]
                    similarity == match_result[2]
                    user == get_user(users, user_id)
                IN  IF \E c \in Batches : user_id \in batches[c].processed_users
                    THEN /\ batches' = [batches EXCEPT ![b].task[i] = "done"]
                         /\ UNCHANGED attendance_logs
                    ELSE IF user = None
                    THEN /\ batches' = [batches EXCEPT ![b].task[i] = "done"]
                         /\ UNCHANGED attendance_logs
                    ELSE \/ /\ attendance_logs' = Append(attendance_logs,
                                   create_attendance_log(user_id, user.name, similarity, i))
                            /\ batches' = [batches EXCEPT
                                   ![b].processed_users = @ \cup {user_id},
                                   ![b].logged = @ \cup {Len(attendance_logs) + 1},
                                   ![b].results[i] =
                                       AttendanceRecord(i, user_id, user.name, similarity),
                                   ![b].task[i] = "done"]
                         \/ /\ batches' = [batches EXCEPT ![b].task[i] = "raised"]
                            /\ UNCHANGED attendance_logs
    /\ UNCHANGED twoIdleVars

\* process_face of request b from the end of the match_embedding job to its return:
\* the test against the request's own processed_users, then crud.get_user and
\* crud.create_attendance_log, which inserts the row or raises.
batch_face_matched(b, i) ==
    /\ b \in Batches
    /\ i \in DOMAIN batches[b].task
    /\ batches[b].task[i] = "matching"
    /\ LET match_result == match_embedding(batches[b].embedding[i],
                                           batches[b].known_embeddings,
                                           Some(RouteThreshold))
       IN  IF match_result = None
           THEN /\ batches' = [batches EXCEPT ![b].task[i] = "done"]
                /\ UNCHANGED attendance_logs
           ELSE LET user_id == match_result[1]
                    similarity == match_result[2]
                    user == get_user(users, user_id)
                IN  IF user_id \in batches[b].processed_users
                    THEN /\ batches' = [batches EXCEPT ![b].task[i] = "done"]
                         /\ UNCHANGED attendance_logs
                    ELSE IF user = None
                    THEN /\ batches' = [batches EXCEPT ![b].task[i] = "done"]
                         /\ UNCHANGED attendance_logs
                    ELSE \/ /\ attendance_logs' = Append(attendance_logs,
                                   create_attendance_log(user_id, user.name, similarity, i))
                            /\ batches' = [batches EXCEPT
                                   ![b].processed_users = @ \cup {user_id},
                                   ![b].logged = @ \cup {Len(attendance_logs) + 1},
                                   ![b].results[i] =
                                       AttendanceRecord(i, user_id, user.name, similarity),
                                   ![b].task[i] = "done"]
                         \/ /\ batches' = [batches EXCEPT ![b].task[i] = "raised"]
                            /\ UNCHANGED attendance_logs
    /\ UNCHANGED twoIdleVars

\* mark_attendance of request b after gather returned.
BatchReturn(b) ==
    /\ b \in Batches
    /\ batches[b].hpc = "gather"
    /\ \A i \in DOMAIN batches[b].task : batches[b].task[i] = "done"
    /\ batches' = [batches EXCEPT
           ![b].resp = [status |-> "success",
                        items |-> SelectSeq(batches[b].results, IsNotNone)],
           ![b].hpc = "returned"]
    /\ UNCHANGED attendance_logs
    /\ UNCHANGED twoIdleVars

\* gather of request b re-raises a task's exception and the handler answers 500.
BatchGatherRaise(b) ==
    /\ b \in Batches
    /\ batches[b].hpc = "gather"
    /\ \E i \in DOMAIN batches[b].task : batches[b].task[i] = "raised"
    /\ batches' = [batches EXCEPT
           ![b].resp = [status |-> "error", items |-> << >>],
           ![b].hpc = "returned"]
    /\ UNCHANGED attendance_logs
    /\ UNCHANGED twoIdleVars

NextTwo ==
    \/ \E b \in Batches : BatchLaunch(b)
    \/ \E b \in Batches : \E i \in 1..MaxFaces : batch_face_embedded(b, i)
    \/ \E b \in Batches : \E i \in 1..MaxFaces : batch_face_matched(b, i)
    \/ \E b \in Batches : BatchReturn(b)
    \/ \E b \in Batches : BatchGatherRaise(b)

SpecTwo == InitTwo /\ [][NextTwo]_vars

\* The identity that face i of request b best-matches in the request's gallery, or None.
BatchFaceMatch(b, i) ==
    LET e == get_embedding(batches[b].detected_faces[i])
    IN  IF e = None \/ Len(batches[b].known_embeddings) = 0 THEN None
        ELSE match_embedding(e, batches[b].known_embeddings, Some(RouteThreshold))

\* Request b has a face of this identity.
BatchHasFaceOf(b, user_id) ==
    \E i \in DOMAIN batches[b].detected_faces :
        BatchFaceMatch(b, i) # None /\ BatchFaceMatch(b, i)[1] = user_id

BatchSucceeded(b) == batches[b].hpc = "returned" /\ batches[b].resp.status = "success"

\* C29: the processed_users of a request holds exactly the identities the request
\* itself has logged, whatever the other request has processed; so when two concurrent
\* mark_attendance requests both hold faces of identity X and succeed, each returns
\* exactly one record for X and each has inserted its own attendance log for X.
C29_BatchesIndependent ==
    \A b \in Batches :
        /\ batches[b].processed_users
             = { attendance_logs[k].user_id : k \in batches[b].logged }
        /\ \A c \in Batches : b # c => batches[b].logged \cap batches[c].logged = {}
        /\ \A user_id \in UserIds :
             (BatchSucceeded(b) /\ BatchHasFaceOf(b, user_id)) =>
                 /\ Cardinality({ k \in DOMAIN batches[b].resp.items :
                                    batches[b].resp.items[k].user_id = user_id }) = 1
                 /\ Cardinality({ k \in batches[b].logged :
                                    attendance_logs[k].user_id = user_id }) = 1

\* Both requests held two faces of Alice and have succeeded, the second one's log
\* written after the first one had Alice in its processed_users: two logs for Alice.
C29_Witness ==
    /\ batches # << >>
    /\ \A b \in Batches :
         /\ BatchSucceeded(b)
         /\ Len(batches[b].detected_faces) = 2
         /\ BatchHasFaceOf(b, "u1")
         /\ Len(batches[b].resp.items) = 1
    /\ Len(attendance_logs) = 2
    /\ \A k \in DOMAIN attendance_logs : attendance_logs[k].user_id = "u1"

----------------------------------------------------------------------------
(* The gallery snapshots of a recognize_bulk request *)

\* The files of the request whose faces went to the matcher.
MatchedImages ==
    { f \in DOMAIN images :
        /\ files[f].content = "image"
        /\ \E i \in DOMAIN images[f].embedding : images[f].embedding[i] # None }

\* C31: in a recognize_bulk request every image whose faces are matched has a gallery
\* snapshot of its own, taken for that image: the request fetched the gallery at
\* least once per such image, and its images do not share one snapshot.
C31_SnapshotPerImage ==
    kind = "recognize_bulk" => Len(fetched) >= Cardinality(MatchedImages)

----------------------------------------------------------------------------
(* Concurrent register requests *)

\* The images posted: no face, one face with an embedding (0.8, 0.6), two faces, and
\* one face for which get_embedding returns None.
RegisterImages ==
    LET face == [has |-> "normed_embedding", vec |-> <<4, 3>>]
    IN  { << >>, <<face>>, <<face, face>>, << [has |-> "none", vec |-> << >>] >> }

RegisterRequests ==
    { [name |-> n, faces |-> q, pc |-> "arrived"] :
        n \in {"alice", "carol"}, q \in RegisterImages }

InitRegister ==
    /\ MatchIdle
    /\ users \in UserTables
    /\ attendance_logs = << >>
    /\ recognition_history = << >>
    /\ kind = "none"
    /\ detected_faces = << >>
    /\ known_embeddings = << >>
    /\ processed_users = {}
    /\ task = << >>
    /\ embedding = << >>
    /\ results = << >>
    /\ persist_failed = {}
    /\ finished = << >>
    /\ hpc = "idle"
    /\ resp = [status |-> "pending", items |-> << >>]
    /\ faults = {}
    /\ fetched = << >>
    /\ registering \in [1..2 -> RegisterRequests]
    /\ files = << >>
    /\ images = << >>

NextRegister ==
    \/ \E r \in DOMAIN registering : register_user_begin(r)
    \/ \E r \in DOMAIN registering : register_user_finish(r)

SpecRegister == InitRegister /\ [][NextRegister]_vars

\* C32: after any interleaving of concurrent register_user requests no two stored
\* users have the same name.
C32_NamesUnique ==
    \A j, k \in DOMAIN users : j # k => users[j].name # users[k].name

\* C33: register_user creates a user only for an image with exactly one detected
\* face: a request answered with a new user had one face, and a request whose image
\* has no face or several, once past its name test, is answered with the client error
\* in a step that leaves the users table as it was.
C33_ExactlyOneFace ==
    [][ \A r \in DOMAIN registering :
          (registering[r].pc = "reading" /\ registering'[r].pc # "reading") =>
              /\ registering'[r].pc = "registered" => Len(registering[r].faces) = 1
              /\ Len(registering[r].faces) # 1 =>
                     /\ registering'[r].pc = "rejected"
                     /\ users' = users
              /\ users' # users =>
                     /\ Len(users') = Len(users) + 1
                     /\ users'[Len(users')].name = registering[r].name ]_vars

\* A request with no face and a request with two faces, both under an unused name,
\* have been answered with the client error, and no user was stored.
C33_Witness ==
    /\ Len(registering) = 2
    /\ registering[1].faces = << >>
    /\ Len(registering[2].faces) = 2
    /\ \A r \in DOMAIN registering :
         registering[r].name = "carol" /\ registering[r].pc = "rejected"
    /\ users \in UserTables

----------------------------------------------------------------------------
(* The results list of recognize_bulk *)

\* File f is rejected by validate_image or read_image_file.
ImageInvalid(f) == files[f].content = "invalid"

\* C34: the results list that recognize_bulk returns holds one entry per submitted
\* file, at the file's position: success false and no faces for a file that is
\* invalid or whose processing raised, and for every other file, whatever happened to
\* its neighbours, success true with one face entry per detected face, in detection
\* order.
C34_OneEntryPerFile ==
    (kind = "recognize_bulk" /\ hpc = "returned" /\ resp.status = "success") =>
        /\ DOMAIN resp.items = DOMAIN files
        /\ \A f \in DOMAIN files :
             IF ImageInvalid(f) \/ ImageRaised(f)
             THEN /\ ~resp.items[f].success
                  /\ resp.items[f].faces = << >>
             ELSE /\ resp.items[f].success
                  /\ resp.items[f].detected_faces = Len(files[f].faces)
                  /\ DOMAIN resp.items[f].faces = DOMAIN files[f].faces
                  /\ \A i \in DOMAIN files[f].faces : resp.items[f].faces[i].bbox = i

\* The first file was invalid and the second was processed: two entries, the failed
\* one first.
C34_Witness ==
    /\ kind = "recognize_bulk"
    /\ hpc = "returned"
    /\ resp.status = "success"
    /\ Len(files) = 2
    /\ ImageInvalid(1)
    /\ ~resp.items[1].success
    /\ resp.items[2].success
    /\ resp.items[2].detected_faces = 1

----------------------------------------------------------------------------
(* Successive calls on one FaceMatcher object *)

\* FaceMatcher.match_embedding on the object self: without a threshold argument it
\* compares against the object's attribute.
matcher_match_embedding(self, query_embedding, known, threshold) ==
    match_embedding(query_embedding, known,
                    IF threshold = None THEN Some(self.similarity_threshold)
                    ELSE threshold)

\* FaceMatcher.is_match with a strict comparison.
is_match_strict(self, embedding1, embedding2, threshold) ==
    LET t == IF threshold = None THEN self.similarity_threshold ELSE threshold[1]
    IN  compute_similarity(embedding1, embedding2) > t

\* FaceMatcher.is_match: similarity >= threshold.
is_match(self, embedding1, embedding2, threshold) ==
    LET t == IF threshold = None THEN self.similarity_threshold ELSE threshold[1]
    IN  compute_similarity(embedding1, embedding2) >= t

\* The calls made: match_embedding of query against the one-entry gallery
\* [("u1", other)], or is_match of query and other.
MatcherCalls ==
    { [method |-> m, query |-> q, other |-> o, threshold |-> t] :
        m \in {"match_embedding", "is_match"}, q \in QueryVecs, o \in GalleryVecs,
        t \in Thresholds }

OneEntryGallery(c) == << <<"u1", c.other>> >>

\* call.self is the FaceMatcher built by FaceMatcher(similarity_threshold=0.6),
\* call.todo the calls still to make, call.done the calls made with their results.
InitMatcher ==
    /\ BatchIdle
    /\ m_query = << >>
    /\ m_gallery = << >>
    /\ m_threshold = None
    /\ m_result = None
    /\ m_pc = "idle"
    /\ m_top_k = 0
    /\ m_top = << >>
    /\ pool = << >>
    /\ batches = << >>
    /\ \E todo \in [1..2 -> MatcherCalls] :
         call = [fn |-> "matcher",
                 self |-> [similarity_threshold |-> similarity_threshold],
                 todo |-> todo, done |-> << >>]

\* What a call on the matcher leaves alone.
matcherIdleVars == <<users, attendance_logs, recognition_history, kind, detected_faces,
                     known_embeddings, processed_users, task, embedding, results, hpc,
                     resp, persist_failed, finished, faults, fetched, registering,
                     files, images, m_query, m_gallery, m_threshold, m_result, m_pc,
                     m_top_k, m_top, pool, batches>>

\* A call of match_embedding that kept its threshold argument in the object.
CallMatchEmbeddingKeepsThreshold ==
    /\ call.todo # << >>
    /\ Head(call.todo).method = "match_embedding"
    /\ LET c == Head(call.todo)
       IN  call' = [call EXCEPT
               !.todo = Tail(@),
               !.self.similarity_threshold =
                   IF c.threshold = None THEN @ ELSE c.threshold[1],
               !.done = Append(@, [args |-> c,
                                   result |-> matcher_match_embedding(
                                       call.self, c.query, OneEntryGallery(c),
                                       c.threshold)])]
    /\ UNCHANGED matcherIdleVars

\* match_embedding(query, [("u1", other)], threshold) on the object: threshold is a
\* local of the call, the attribute is only read.
CallMatchEmbedding ==
    /\ call.todo # << >>
    /\ Head(call.todo).method = "match_embedding"
    /\ LET c == Head(call.todo)
       IN  call' = [call EXCEPT
               !.todo = Tail(@),
               !.done = Append(@, [args |-> c,
                                   result |-> matcher_match_embedding(
                                       call.self, c.query, OneEntryGallery(c),
                                       c.threshold)])]
    /\ UNCHANGED matcherIdleVars

\* is_match(query, other, threshold) on the object.
CallIsMatch ==
    /\ call.todo # << >>
    /\ Head(call.todo).method = "is_match"
    /\ LET c == Head(call.todo)
       IN  call' = [call EXCEPT
               !.todo = Tail(@),
               !.done = Append(@, [args |-> c,
                                   result |-> is_match(call.self, c.query, c.other,
                                                       c.threshold)])]
    /\ UNCHANGED matcherIdleVars

NextMatcher ==
    \/ CallMatchEmbedding
    \/ CallIsMatch

SpecMatcher == InitMatcher /\ [][NextMatcher]_vars

\* The calls of this method made so far.
CallsDone(method) == { k \in DOMAIN call.done : call.done[k].args.method = method }

\* The threshold a call compares against: the one passed, or 0.6 when none is.
PassedOrDefault(threshold) ==
    IF threshold = None THEN similarity_threshold ELSE threshold[1]

\* C35: every match_embedding call, whatever calls were made before it, accepts the
\* entry exactly when its score is above the threshold passed with that call, or above
\* the configured 0.6 when none is passed; and the object's default stays 0.6.
C35_ThresholdPerCall ==
    /\ call.self.similarity_threshold = similarity_threshold
    /\ \A k \in CallsDone("match_embedding") :
         LET c == call.done[k].args
             score == compute_similarity(c.query, c.other)
         IN  IF score > PassedOrDefault(c.threshold)
             THEN call.done[k].result = <<"u1", score>>
             ELSE call.done[k].result = None

\* A call with the explicit threshold 0.96 refused the entry scoring 0.96, and the next
\* call, without a threshold, accepted it against the default.
C35_Witness ==
    /\ Len(call.done) = 2
    /\ \A k \in 1..2 : /\ call.done[k].args.method = "match_embedding"
                       /\ call.done[k].args.query = <<4, 3>>
                       /\ call.done[k].args.other = <<3, 4>>
    /\ call.done[1].args.threshold = Some(96)
    /\ call.done[1].result = None
    /\ call.done[2].args.threshold = None
    /\ call.done[2].result = <<"u1", 96>>

\* C38: is_match accepts a pair whose similarity equals the threshold, where
\* match_embedding on the one-entry gallery of the same pair with the same threshold
\* returns None; for every other similarity is_match is true exactly when
\* match_embedding returns the entry.
C38_InclusiveVersusStrict ==
    \A k \in CallsDone("is_match") :
        LET c == call.done[k].args
            score == compute_similarity(c.query, c.other)
            found == matcher_match_embedding(call.self, c.query, OneEntryGallery(c),
                                             c.threshold) # None
        IN  IF score = PassedOrDefault(c.threshold)
            THEN call.done[k].result /\ ~found
            ELSE call.done[k].result = found

\* is_match has returned true for a pair scoring exactly the threshold 0.96.
C38_Witness ==
    \E k \in CallsDone("is_match") :
        /\ call.done[k].args.query = <<4, 3>>
        /\ call.done[k].args.other = <<3, 4>>
        /\ call.done[k].args.threshold = Some(96)
        /\ call.done[k].result

----------------------------------------------------------------------------
(* When recognize_faces writes its history *)

\* C36: in recognize_faces a recognition-history record exists only once every
\* per-face task of the batch has returned; the records are those of the faces in
\* input order, the k-th record being the one of face k whatever the order in which
\* the tasks ended; and a batch in which a task raised has no history record.
C36_HistoryAfterAllTasks ==
    kind = "recognize" =>
        /\ recognition_history # << >> => \A i \in DOMAIN task : task[i] = "done"
        /\ (\E i \in DOMAIN task : task[i] = "raised") => recognition_history = << >>
        /\ Len(recognition_history) <= Len(results)
        /\ \A k \in DOMAIN recognition_history :
             recognition_history[k] = HistoryRecord(results[k])

\* The task of face 2 ended first; the batch has succeeded with the record of face 1,
\* recognized, before the record of face 2, unknown.
C36_Witness ==
    /\ kind = "recognize"
    /\ Succeeded
    /\ finished = <<2, 1>>
    /\ Len(recognition_history) = 2
    /\ recognition_history[1].recognized = "true"
    /\ recognition_history[2].recognized = "false"

----------------------------------------------------------------------------
(* The response of mark_attendance *)

\* Record r of the response and row l of attendance_logs were made for the same face.
RecordOfLog(r, l) ==
    /\ resp.items[r].face = attendance_logs[l].face
    /\ resp.items[r].user_id = attendance_logs[l].user_id
    /\ resp.items[r].name = attendance_logs[l].user_name
    /\ resp.items[r].confidence = attendance_logs[l].confidence

\* C37: when mark_attendance returns success on an image with faces, each returned
\* record has exactly one attendance log of the call and each log of the call exactly
\* one record, the records are in the input order of their faces, their user_ids are
\* pairwise distinct, and the number in the message is the number of records.
C37_RecordsMatchLogs ==
    (kind = "attendance" /\ Succeeded /\ Len(detected_faces) > 0) =>
        /\ \A r \in DOMAIN resp.items :
             Cardinality({ l \in DOMAIN attendance_logs : RecordOfLog(r, l) }) = 1
        /\ \A l \in DOMAIN attendance_logs :
             Cardinality({ r \in DOMAIN resp.items : RecordOfLog(r, l) }) = 1
        /\ \A r, q \in DOMAIN resp.items :
             r < q => /\ resp.items[r].face < resp.items[q].face
                      /\ resp.items[r].user_id # resp.items[q].user_id
        /\ resp.message = Len(resp.items)

\* Two faces of two users, the task of face 2 ending first: the log of face 2 is the
\* first row, and the response lists the record of face 1 first.
C37_Witness ==
    /\ kind = "attendance"
    /\ Succeeded
    /\ finished = <<2, 1>>
    /\ Len(resp.items) = 2
    /\ Len(attendance_logs) = 2
    /\ attendance_logs[1].face = 2
    /\ resp.items[1].face = 1

----------------------------------------------------------------------------
(* Batches over one worker pool, with the scheduling the runtime gives *)

\* The batches in flight on one pool.
PoolBatches == {1, 2}

\* One more task than a pool has worker threads, all submitting to the pool of one
\* module.  They are the tasks of one batch of max_workers + 1 faces beside a batch of
\* an image without faces, or of a batch of MaxFaces faces and a batch of the others.
InitPoolFair ==
    /\ BatchIdle
    /\ m_query = << >>
    /\ m_gallery = << >>
    /\ m_threshold = None
    /\ m_result = None
    /\ m_pc = "idle"
    /\ m_top_k = 0
    /\ m_top = << >>
    /\ call = << >>
    /\ batches = << >>
    /\ \E e \in Executors : \E n \in {0, MaxFaces} :
         pool = [pc |-> [t \in 1..(max_workers + 1) |-> "start"],
                 exec |-> [t \in 1..(max_workers + 1) |-> e],
                 queue |-> [x \in Executors |-> << >>],
                 batch |-> [t \in 1..(max_workers + 1) |-> IF t <= n THEN 1 ELSE 2],
                 returned |-> [b \in PoolBatches |-> FALSE]]

\* The tasks of batch b.
TasksOf(b) == { t \in PoolTasks : pool.batch[t] = b }

\* await asyncio.gather(*tasks) of batch b returns, or re-raises, once every task of
\* the batch has ended, and the handler returns its response.
PoolGatherReturn(b) ==
    /\ ~pool.returned[b]
    /\ \A t \in TasksOf(b) : pool.pc[t] = "done"
    /\ pool' = [pool EXCEPT !.returned[b] = TRUE]
    /\ UNCHANGED poolIdleVars

NextPoolFair ==
    \/ \E t \in PoolTasks : PoolSubmitEmbedding(t)
    \/ \E e \in Executors : PoolWorkerTake(e)
    \/ \E t \in PoolTasks : PoolJobDone(t)
    \/ \E t \in PoolTasks : PoolResume(t)
    \/ \E b \in PoolBatches : PoolGatherReturn(b)

\* The event loop runs every coroutine that is ready, a pool with a free worker
\* thread takes its oldest queued job, and a job that is executing ends.
SpecPoolFair ==
    /\ InitPoolFair
    /\ [][NextPoolFair]_vars
    /\ WF_vars(\E t \in PoolTasks : PoolSubmitEmbedding(t))
    /\ WF_vars(\E e \in Executors : PoolWorkerTake(e))
    /\ WF_vars(\E t \in PoolTasks : PoolJobDone(t))
    /\ WF_vars(\E t \in PoolTasks : PoolResume(t))
    /\ WF_vars(\E b \in PoolBatches : PoolGatherReturn(b))

\* Every batch on the pool has returned its response.
AllBatchesReturned == \A b \in PoolBatches : pool.returned[b]

\* C39: when every pool job that executes ends and the pool hands its queued jobs to
\* free worker threads, every batch eventually returns its response, also with more
\* tasks than the pool has worker threads and with two batches in flight.
C39_EveryBatchReturns == <>AllBatchesReturned

\* Both batches have returned, with more tasks on the one pool than it has threads.
C39_Witness ==
    /\ AllBatchesReturned
    /\ Cardinality(PoolTasks) > max_workers
    /\ \E e \in Executors : \A t \in PoolTasks : pool.exec[t] = e
    /\ \A t \in PoolTasks : pool.pc[t] = "done"

============================================================================
